---- MODULE Spec2Model ----
(***************************************************************************)
(* A model of the Tauri back end of ClaudeCodeMonitor: the Prometheus      *)
(* query client (prometheus.rs), the dashboard and health commands         *)
(* (commands.rs, prometheus_health.rs) and the session assembly            *)
(* (sessions.rs).                                                          *)
(*                                                                         *)
(* Conventions.  A Rust String whose content matters is a sequence of      *)
(* one-character strings (<<"1","5","m">> is "15m"), so that formatting    *)
(* and parsing are computed and not assumed.  Option<T> is a sequence of   *)
(* length 0 (None) or 1 (Some).  Result<T,E> is a record with field ok.    *)
(* The metrics server is the environment: every HTTP exchange is answered  *)
(* by a response drawn from the responses the server can give.             *)
(***************************************************************************)
EXTENDS Integers, Sequences, FiniteSets

VARIABLES
    cmd,      \* the command or function being run ("none" before any call)
    pc,       \* its position: "idle", "run" (in its battery of queries) or "done"
    stage,    \* the number of the next step of the battery (0 outside one)
    args,     \* the arguments of the call
    now,      \* the clock value the call has read (<<>> while none was read)
    server,   \* the state of the metrics server during the call
    budget,   \* how many more responses may deviate from the server's state
    issued,   \* the HTTP requests sent so far, in order
    failed,   \* how many client calls have returned Err so far
    locals,   \* the local variables of the running call
    last,     \* the response of the last HTTP exchange (<<>> before the first)
    ret       \* the value returned (<<>> until the call returns)

vars == <<cmd, pc, stage, args, now, server, budget, issued, failed, locals, last, ret>>

(***************************************************************************)
(* Option and Result                                                       *)
(***************************************************************************)
None == <<>>

Some(x) == <<x>>

IsSome(o) == Len(o) = 1

Unwrap(o) == o[1]

UnwrapOr(o, d) == IF IsSome(o) THEN o[1] ELSE d

Ok(v) == [ok |-> TRUE, val |-> v]

Err(e) == [ok |-> FALSE, err |-> e]

(***************************************************************************)
(* Strings: decimal formatting (Display for i64) and parsing               *)
(***************************************************************************)
Digits == <<"0", "1", "2", "3", "4", "5", "6", "7", "8", "9">>

DigitChar(d) == Digits[d + 1]

IsDigit(c) == \E i \in 1..10 : Digits[i] = c

DigitValue(c) == (CHOOSE i \in 1..10 : Digits[i] = c) - 1

RECURSIVE NatToString(_)
NatToString(n) ==
    IF n < 10 THEN <<DigitChar(n)>>
    ELSE NatToString(n \div 10) \o <<DigitChar(n % 10)>>

\* i64::to_string / format!("{}", n)
I64ToString(n) == IF n < 0 THEN <<"-">> \o NatToString(-n) ELSE NatToString(n)

AllDigits(s) == Len(s) > 0 /\ \A i \in 1..Len(s) : IsDigit(s[i])

RECURSIVE DigitsValue(_)
DigitsValue(s) ==
    IF Len(s) = 0 THEN 0
    ELSE 10 * DigitsValue(SubSeq(s, 1, Len(s) - 1)) + DigitValue(s[Len(s)])

\* str::parse::<f64>() on the sample strings of the model: an optional sign
\* and decimal digits parse to their value, anything else is a parse error.
\* An f64 of the model is an integer, or NaN: the one value that is neither
\* less than, equal to nor greater than any f64.  It is held as an integer
\* that no sample and no sum of the model comes near.
NaN == -(2 ^ 30)

StrNaN == <<"N", "a", "N">>

\* f64 `+`
FAdd(a, b) == IF a = NaN \/ b = NaN THEN NaN ELSE a + b

\* f64 `>`
FGreater(a, b) == a /= NaN /\ b /= NaN /\ a > b

\* `a.partial_cmp(&b).unwrap_or(Ordering::Equal) == Ordering::Equal`
FCmpEqual(a, b) == a = NaN \/ b = NaN \/ a = b

\* str::parse::<f64>: the numerals of the model (an optional sign and decimal
\* digits) and "NaN"
ParseF64(s) ==
    IF s = StrNaN THEN Some(NaN)
    ELSE IF AllDigits(s) THEN Some(DigitsValue(s))
    ELSE IF Len(s) > 1 /\ s[1] = "-" /\ AllDigits(Tail(s)) THEN Some(-DigitsValue(Tail(s)))
    ELSE IF Len(s) > 1 /\ s[1] = "+" /\ AllDigits(Tail(s)) THEN Some(DigitsValue(Tail(s)))
    ELSE None

\* `x as u64` / `x as u32` of an f64: a saturating cast (negative values give 0)
AsUnsigned(x) == IF x = NaN \/ x < 0 THEN 0 ELSE x

(***************************************************************************)
(* prometheus.rs: errors, responses, the client                            *)
(***************************************************************************)
\* PrometheusError::Request (transport failure or undecodable body)
RequestError(detail) == [type |-> "Request", msg |-> detail]

\* PrometheusError::InvalidResponse(status)
InvalidResponse(status) == [type |-> "InvalidResponse", msg |-> status]

\* #[error("HTTP request failed: {0}")] / #[error("Invalid response: {0}")]
ErrorToString(e) ==
    IF e.type = "Request" THEN <<"HTTP request failed: ", e.msg>>
    ELSE <<"Invalid response: ", e.msg>>

\* One row of data.result (QueryResult): metric is the label map as a set of
\* <<key, value>> pairs, value and values are the optional samples.
Row(metric, value, values) == [metric |-> metric, value |-> value, values |-> values]

\* HashMap::get
Get(metric, key) ==
    IF \E p \in metric : p[1] = key
    THEN Some((CHOOSE p \in metric : p[1] = key)[2])
    ELSE None

\* What one HTTP exchange of query / query_range can come to.
TransportFailure == [kind |-> "transport", status |-> "", result |-> <<>>]

UndecodableBody == [kind |-> "badjson", status |-> "", result |-> <<>>]

Envelope(status, rows) == [kind |-> "envelope", status |-> status, result |-> rows]

\* DecodeQueryResponse without the status test: rows are handed on whenever
\* the envelope decodes.
DecodeQueryResponse_NoStatusTest(resp) ==
    IF resp.kind = "transport" THEN Err(RequestError("send"))
    ELSE IF resp.kind = "badjson" THEN Err(RequestError("decode"))
    ELSE Ok(resp.result)

\* PrometheusClient::query and PrometheusClient::query_range, from the
\* outcome of the exchange on: `send().await?`, `.json().await?`, the status
\* test, `Ok(response.data.result)`.
DecodeQueryResponse(resp) ==
    IF resp.kind = "transport" THEN Err(RequestError("send"))
    ELSE IF resp.kind = "badjson" THEN Err(RequestError("decode"))
    ELSE IF resp.status /= "success" THEN Err(InvalidResponse(resp.status))
    ELSE Ok(resp.result)

\* The request of PrometheusClient::query
QueryRequest(query) ==
    [path |-> "/api/v1/query", params |-> << <<"query", query>> >>]

\* The request of PrometheusClient::query_range
QueryRangeRequest(query, start, end, step) ==
    [path |-> "/api/v1/query_range",
     params |-> << <<"query", query>>, <<"start", I64ToString(start)>>,
                   <<"end", I64ToString(end)>>, <<"step", step>> >>]

\* The request of PrometheusClient::test_connection
HealthyRequest == [path |-> "/-/healthy", params |-> <<>>]

\* What the exchange of test_connection can come to: no response, or a
\* response with an HTTP status code.
ProbeFailure == [kind |-> "transport", code |-> 0]

ProbeAnswer(code) == [kind |-> "http", code |-> code]

\* StatusCode::is_success
IsSuccess(code) == 200 <= code /\ code <= 299

\* ClientTestConnection with the transport error collapsed to false.
ClientTestConnection_Collapse(resp) ==
    IF resp.kind = "transport" THEN Ok(FALSE)
    ELSE Ok(IsSuccess(resp.code))

\* PrometheusClient::test_connection: `send().await?`, then
\* `Ok(response.status().is_success())`.
ClientTestConnection(resp) ==
    IF resp.kind = "transport" THEN Err(RequestError("send"))
    ELSE Ok(IsSuccess(resp.code))

\* commands::test_connection: `client.test_connection().await.map_err(|e| e.to_string())`
MapErrToString(r) == IF r.ok THEN r ELSE Err(ErrorToString(r.err))

CommandTestConnection(resp) == MapErrToString(ClientTestConnection(resp))

(***************************************************************************)
(* The environment: the metrics server                                     *)
(***************************************************************************)
\* Bounds of the model.
MaxFaults == 1

MaxRows == 2

\* The server is up with data, up without any sample of the queried metrics,
\* or unreachable.
ServerModes == {"data", "empty", "down"}

SampleTime == 17 * 100000000

Str42 == <<"4", "2">>

Str7 == <<"7">>

StrJunk == <<"x">>

\* Rows an instant query can return.
SampleRow(v) == Row({}, Some(<<SampleTime, v>>), None)

NoValueRow == Row({}, None, None)

LabelledRow(key, label, v) == Row({<<key, label>>}, Some(<<SampleTime, v>>), None)

\* A row of a range query.
SeriesRow(points) == Row({}, None, Some(points))

RECURSIVE SeqsUpTo(_, _)
SeqsUpTo(S, n) ==
    IF n = 0 THEN {<<>>}
    ELSE LET shorter == SeqsUpTo(S, n - 1)
         IN  shorter \cup {Append(q, x) : q \in shorter, x \in S}

\* Envelope statuses: only the exact string "success" is a success.
Statuses == {"success", "error", "Success"}

\* What the server does when it behaves as its state says.
Typical(mode, dataRows) ==
    IF mode = "down" THEN TransportFailure
    ELSE IF mode = "empty" THEN Envelope("success", <<>>)
    ELSE Envelope("success", dataRows)

\* The responses an exchange may get: the typical one, and any other one of
\* `all` while the budget of deviations lasts.
Answers(all, typical) == IF budget > 0 THEN all \cup {typical} ELSE {typical}

Spend(resp, typical) == IF resp = typical THEN budget ELSE budget - 1

(***************************************************************************)
(* The client called on its own                                            *)
(***************************************************************************)
ClientRowKinds ==
    {SampleRow(Str42), NoValueRow, LabelledRow("model", "opus", Str7),
     SeriesRow(<< <<SampleTime, Str42>> >>)}

ClientResponses ==
    {TransportFailure, UndecodableBody}
        \cup {Envelope(st, rows) : st \in Statuses, rows \in SeqsUpTo(ClientRowKinds, MaxRows)}

ProbeCodes == {200, 204, 301, 404, 503}

ProbeResponses == {ProbeFailure} \cup {ProbeAnswer(c) : c \in ProbeCodes}

ClientTypical == Typical(server, <<SampleRow(Str42)>>)

ProbeTypical == IF server = "down" THEN ProbeFailure ELSE ProbeAnswer(200)

QueryUp == <<"up">>

Step60 == <<"6", "0", "s">>

InitCommon ==
    /\ cmd = "none"
    /\ pc = "idle"
    /\ stage = 0
    /\ args = <<>>
    /\ now = <<>>
    /\ server \in ServerModes
    /\ issued = <<>>
    /\ failed = 0
    /\ locals = <<>>
    /\ last = <<>>
    /\ ret = <<>>

\* client.query(q)
CallQuery ==
    /\ pc = "idle"
    /\ \E resp \in Answers(ClientResponses, ClientTypical) :
        /\ cmd' = "query"
        /\ args' = [query |-> QueryUp]
        /\ issued' = Append(issued, QueryRequest(QueryUp))
        /\ last' = resp
        /\ ret' = DecodeQueryResponse(resp)
        /\ failed' = IF DecodeQueryResponse(resp).ok THEN failed ELSE failed + 1
        /\ budget' = Spend(resp, ClientTypical)
    /\ pc' = "done"
    /\ UNCHANGED <<stage, now, server, locals>>

\* client.query_range(q, start, end, step)
CallQueryRange ==
    /\ pc = "idle"
    /\ \E resp \in Answers(ClientResponses, ClientTypical) :
        /\ cmd' = "query_range"
        /\ args' = [query |-> QueryUp, start |-> SampleTime - 60, end |-> SampleTime,
                    step |-> Step60]
        /\ issued' = Append(issued,
                        QueryRangeRequest(QueryUp, SampleTime - 60, SampleTime, Step60))
        /\ last' = resp
        /\ ret' = DecodeQueryResponse(resp)
        /\ failed' = IF DecodeQueryResponse(resp).ok THEN failed ELSE failed + 1
        /\ budget' = Spend(resp, ClientTypical)
    /\ pc' = "done"
    /\ UNCHANGED <<stage, now, server, locals>>

\* client.test_connection()
CallClientTestConnection ==
    /\ pc = "idle"
    /\ \E resp \in Answers(ProbeResponses, ProbeTypical) :
        /\ cmd' = "client_test_connection"
        /\ args' = <<>>
        /\ issued' = Append(issued, HealthyRequest)
        /\ last' = resp
        /\ ret' = ClientTestConnection(resp)
        /\ failed' = IF ClientTestConnection(resp).ok THEN failed ELSE failed + 1
        /\ budget' = Spend(resp, ProbeTypical)
    /\ pc' = "done"
    /\ UNCHANGED <<stage, now, server, locals>>

\* the test_connection command
CallTestConnection ==
    /\ pc = "idle"
    /\ \E resp \in Answers(ProbeResponses, ProbeTypical) :
        /\ cmd' = "test_connection"
        /\ args' = <<>>
        /\ issued' = Append(issued, HealthyRequest)
        /\ last' = resp
        /\ ret' = CommandTestConnection(resp)
        /\ failed' = IF ClientTestConnection(resp).ok THEN failed ELSE failed + 1
        /\ budget' = Spend(resp, ProbeTypical)
    /\ pc' = "done"
    /\ UNCHANGED <<stage, now, server, locals>>

InitClient == InitCommon /\ budget = MaxFaults

NextClient ==
    \/ CallQuery
    \/ CallQueryRange
    \/ CallClientTestConnection
    \/ CallTestConnection

SpecClient == InitClient /\ [][NextClient]_vars

ClientCallDone(c) == pc = "done" /\ cmd = c

\* C3: query and query_range return an InvalidResponse error whenever the
\* decoded envelope's status is not "success", whatever data.result holds;
\* they return rows only when the status is "success", and then every row of
\* data.result in order.
C3_StatusGate ==
    \A c \in {"query", "query_range"} :
        ClientCallDone(c) =>
            /\ (last.kind = "envelope" /\ last.status /= "success")
                  => (~ret.ok /\ ret.err.type = "InvalidResponse"
                              /\ ret.err.msg = last.status)
            /\ ret.ok => /\ last.kind = "envelope"
                         /\ last.status = "success"
                         /\ ret.val = last.result
            /\ (last.kind = "envelope" /\ last.status = "success")
                  => ret.ok

\* A range query answered with status "error" and two rows, refused.
C3_Witness ==
    /\ ClientCallDone("query_range")
    /\ last.kind = "envelope"
    /\ last.status = "error"
    /\ Len(last.result) = 2
    /\ ~ret.ok

\* C8 as stated: a transport error while probing the health endpoint yields
\* false, not an error, in the client method and in the test_connection command.
C8_TransportErrorIsFalse ==
    \A c \in {"client_test_connection", "test_connection"} :
        (ClientCallDone(c) /\ last.kind = "transport") => ret = Ok(FALSE)

\* C8 amended: test_connection returns a boolean only when the health endpoint
\* answers (true exactly for a 2xx status); a transport error yields an error:
\* PrometheusError::Request from the client method, its message string from
\* the command.
C8_TransportErrorIsError ==
    /\ ClientCallDone("client_test_connection") =>
          /\ last.kind = "transport"
                => (~ret.ok /\ ret.err.type = "Request")
          /\ last.kind = "http"
                => (ret.ok /\ (ret.val <=> last.code \in 200..299))
    /\ ClientCallDone("test_connection") =>
          /\ last.kind = "transport"
                => (~ret.ok /\ ret.err[1] = "HTTP request failed: ")
          /\ last.kind = "http"
                => (ret.ok /\ (ret.val <=> last.code \in 200..299))

\* The command has met a transport error and returned an error.
C8_Witness ==
    /\ ClientCallDone("test_connection")
    /\ last.kind = "transport"
    /\ ~ret.ok

(***************************************************************************)
(* commands.rs: range resolution                                           *)
(***************************************************************************)
\* commands::time_range_to_seconds
time_range_to_seconds(range) ==
    CASE range = "15m" -> 15 * 60
      [] range = "1h" -> 3600
      [] range = "4h" -> 4 * 3600
      [] range = "1d" -> 24 * 3600
      [] range = "7d" -> 7 * 24 * 3600
      [] range = "30d" -> 30 * 24 * 3600
      [] range = "90d" -> 90 * 24 * 3600
      [] OTHER -> 15 * 60

\* time_range_to_promql with the fallback of the health command, one hour.
time_range_to_promql_HourDefault(range) ==
    CASE range = "15m" -> <<"1", "5", "m">>
      [] range = "1h" -> <<"1", "h">>
      [] range = "4h" -> <<"4", "h">>
      [] range = "1d" -> <<"1", "d">>
      [] range = "7d" -> <<"7", "d">>
      [] range = "30d" -> <<"3", "0", "d">>
      [] range = "90d" -> <<"9", "0", "d">>
      [] OTHER -> <<"1", "h">>

\* commands::time_range_to_promql
time_range_to_promql(range) ==
    CASE range = "15m" -> <<"1", "5", "m">>
      [] range = "1h" -> <<"1", "h">>
      [] range = "4h" -> <<"4", "h">>
      [] range = "1d" -> <<"1", "d">>
      [] range = "7d" -> <<"7", "d">>
      [] range = "30d" -> <<"3", "0", "d">>
      [] range = "90d" -> <<"9", "0", "d">>
      [] OTHER -> <<"1", "5", "m">>

\* format!("{}s", duration_secs)
FormatSeconds(duration_secs) == I64ToString(duration_secs) \o <<"s">>

\* CustomWindow with the two bounds exchanged.
CustomWindow_Swapped(start, end) ==
    [start_time |-> end, end_time |-> start, range_str |-> FormatSeconds(start - end)]

\* get_dashboard_metrics, the custom branch once both bounds are there
CustomWindow(start, end) ==
    [start_time |-> start, end_time |-> end, range_str |-> FormatSeconds(end - start)]

\* PresetWindow with the window laid after the clock value instead of before.
PresetWindow_Ahead(range, n) ==
    [start_time |-> n, end_time |-> n + time_range_to_seconds(range),
     range_str |-> time_range_to_promql(range)]

\* get_dashboard_metrics, the preset branch: n is the clock value read
PresetWindow(range, n) ==
    [start_time |-> n - time_range_to_seconds(range), end_time |-> n,
     range_str |-> time_range_to_promql(range)]

\* DashboardWindow with an absent bound replaced by the clock value.
DashboardWindow_Lenient(time_range, custom_start, custom_end, n) ==
    IF time_range = "custom"
    THEN Ok(CustomWindow(UnwrapOr(custom_start, n), UnwrapOr(custom_end, n)))
    ELSE Ok(PresetWindow(time_range, n))

\* get_dashboard_metrics: (start_time, end_time, range_str)
DashboardWindow(time_range, custom_start, custom_end, n) ==
    IF time_range = "custom"
    THEN IF ~IsSome(custom_start) THEN Err(<<"Custom start time required">>)
         ELSE IF ~IsSome(custom_end) THEN Err(<<"Custom end time required">>)
         ELSE Ok(CustomWindow(Unwrap(custom_start), Unwrap(custom_end)))
    ELSE Ok(PresetWindow(time_range, n))

\* HealthDuration with the dashboard's fallback of 15 minutes.
HealthDuration_Shortest(time_range) ==
    IF time_range = None THEN 15 * 60
    ELSE time_range_to_seconds(Unwrap(time_range))

\* get_prometheus_health: the duration of a preset (or absent) token
HealthDuration(time_range) ==
    CASE time_range = Some("15m") -> 15 * 60
      [] time_range = Some("1h") -> 3600
      [] time_range = Some("4h") -> 4 * 3600
      [] time_range = Some("1d") -> 24 * 3600
      [] time_range = Some("7d") -> 7 * 24 * 3600
      [] time_range = Some("30d") -> 30 * 24 * 3600
      [] time_range = Some("90d") -> 90 * 24 * 3600
      [] OTHER -> 3600

\* get_prometheus_health: (start_time, end_time)
HealthWindow(time_range, custom_start, custom_end, n) ==
    IF time_range = Some("custom")
    THEN IF ~IsSome(custom_start) THEN Err(<<"Custom start time required">>)
         ELSE IF ~IsSome(custom_end) THEN Err(<<"Custom end time required">>)
         ELSE Ok([start_time |-> Unwrap(custom_start), end_time |-> Unwrap(custom_end)])
    ELSE Ok([start_time |-> n - HealthDuration(time_range), end_time |-> n])

(***************************************************************************)
(* commands.rs: get_dashboard_metrics                                      *)
(***************************************************************************)
\* The twelve scalar queries in the order the command issues them: the field
\* each feeds, the text around the range literal, the cast of the parsed value.
DashboardQueries ==
    << [field |-> "total_tokens", cast |-> "u64",
        head |-> "sum(increase(claude_code_token_usage_tokens_total[", tail |-> "]))"],
       [field |-> "input_tokens", cast |-> "u64",
        head |-> "sum(increase(claude_code_token_usage_tokens_total{type=\"input\"}[",
        tail |-> "]))"],
       [field |-> "output_tokens", cast |-> "u64",
        head |-> "sum(increase(claude_code_token_usage_tokens_total{type=\"output\"}[",
        tail |-> "]))"],
       [field |-> "cache_read_tokens", cast |-> "u64",
        head |-> "sum(increase(claude_code_token_usage_tokens_total{type=~\"cache_read|cacheRead\"}[",
        tail |-> "]))"],
       [field |-> "cache_creation_tokens", cast |-> "u64",
        head |-> "sum(increase(claude_code_token_usage_tokens_total{type=~\"cache_creation|cacheCreation\"}[",
        tail |-> "]))"],
       [field |-> "total_cost_usd", cast |-> "f64",
        head |-> "sum(increase(claude_code_cost_usage_USD_total[", tail |-> "]))"],
       [field |-> "active_time_seconds", cast |-> "f64",
        head |-> "sum(increase(claude_code_active_time_seconds_total[", tail |-> "]))"],
       [field |-> "session_count", cast |-> "u32",
        head |-> "sum(increase(claude_code_session_count_total[", tail |-> "]))"],
       [field |-> "lines_added", cast |-> "u64",
        head |-> "sum(increase(claude_code_lines_of_code_count_total{type=\"added\"}[",
        tail |-> "]))"],
       [field |-> "lines_removed", cast |-> "u64",
        head |-> "sum(increase(claude_code_lines_of_code_count_total{type=\"removed\"}[",
        tail |-> "]))"],
       [field |-> "commit_count", cast |-> "u32",
        head |-> "sum(increase(claude_code_commit_count_total[", tail |-> "]))"],
       [field |-> "pull_request_count", cast |-> "u32",
        head |-> "sum(increase(claude_code_pull_request_count_total[", tail |-> "]))"] >>

NumScalars == Len(DashboardQueries)

ModelQueryStep == NumScalars + 1

RangeQueryStep == NumScalars + 2

\* format!(head{}tail, range)
FormatQuery(head, range, tail) == <<head, range, tail>>

ModelQueryHead == "sum by (model) (increase(claude_code_token_usage_tokens_total["

RateQueryHead == "sum(rate(claude_code_cost_usage_USD_total["

\* FirstSample looking for the first row that has a parsable value rather
\* than at the first row.
RECURSIVE FirstSample_Searching(_)
FirstSample_Searching(rows) ==
    IF Len(rows) = 0 THEN None
    ELSE IF IsSome(rows[1].value) /\ IsSome(ParseF64(Unwrap(rows[1].value)[2]))
         THEN ParseF64(Unwrap(rows[1].value)[2])
    ELSE FirstSample_Searching(Tail(rows))

\* `.first().and_then(|r| r.value.as_ref()).and_then(|(_, v)| v.parse::<f64>().ok())`
FirstSample(rows) ==
    IF Len(rows) = 0 THEN None
    ELSE IF ~IsSome(rows[1].value) THEN None
    ELSE ParseF64(Unwrap(rows[1].value)[2])

\* `... .unwrap_or(0.0) as u64`, `as u32`, or left an f64
ScalarOf(rows, cast) ==
    IF cast = "f64" THEN UnwrapOr(FirstSample(rows), 0)
    ELSE AsUnsigned(UnwrapOr(FirstSample(rows), 0))

\* ScalarResult with the client error swallowed into the default, as the
\* health aggregator does.
ScalarResult_Swallow(r, cast) ==
    IF r.ok THEN Ok(ScalarOf(r.val, cast)) ELSE Ok(0)

\* `client.query(..).await.map_err(|e| e.to_string())?` and the coercion
ScalarResult(r, cast) ==
    IF r.ok THEN Ok(ScalarOf(r.val, cast)) ELSE Err(ErrorToString(r.err))

\* the filter_map closure of tokens_by_model: Some for the rows it keeps
ModelRowKept(r) ==
    /\ IsSome(Get(r.metric, "model"))
    /\ IsSome(r.value)
    /\ IsSome(ParseF64(Unwrap(r.value)[2]))

\* TokensByModel with a default in place of the drop: every row gives an
\* entry, "unknown" for a missing label and 0 for a missing or unparsable
\* value.
TokensByModel_Defaulting(rows) ==
    [i \in 1..Len(rows) |->
        [model |-> UnwrapOr(Get(rows[i].metric, "model"), "unknown"),
         tokens |-> IF IsSome(rows[i].value)
                    THEN AsUnsigned(UnwrapOr(ParseF64(Unwrap(rows[i].value)[2]), 0))
                    ELSE 0]]

\* tokens_by_model: `.iter().filter_map(..).collect()`
TokensByModel(rows) ==
    LET kept == SelectSeq(rows, ModelRowKept)
    IN  [i \in 1..Len(kept) |->
            [model |-> Unwrap(Get(kept[i].metric, "model")),
             tokens |-> AsUnsigned(Unwrap(ParseF64(Unwrap(kept[i].value)[2])))]]

\* tokens_over_time: the points of the first row, if it has any
TokensOverTime(rows) ==
    IF Len(rows) = 0 THEN <<>>
    ELSE IF ~IsSome(rows[1].values) THEN <<>>
    ELSE LET values == Unwrap(rows[1].values)
         IN  [i \in 1..Len(values) |->
                [timestamp |-> values[i][1],
                 value |-> UnwrapOr(ParseF64(values[i][2]), 0)]]

\* StepAndWindow with windows of one to seven days sampled every 30 minutes.
StepAndWindow_FineWeek(time_range, start_time, end_time) ==
    LET pair(step, window) == [step |-> step, rate_window |-> window]
        duration == end_time - start_time
    IN  CASE time_range = "15m" -> pair(<<"1", "m">>, <<"5", "m">>)
          [] time_range = "1h" -> pair(<<"1", "m">>, <<"5", "m">>)
          [] time_range = "4h" -> pair(<<"5", "m">>, <<"5", "m">>)
          [] time_range = "1d" -> pair(<<"1", "h">>, <<"1", "h">>)
          [] time_range = "7d" -> pair(<<"3", "0", "m">>, <<"6", "h">>)
          [] time_range = "30d" -> pair(<<"1", "d">>, <<"1", "d">>)
          [] time_range = "90d" -> pair(<<"3", "d">>, <<"3", "d">>)
          [] time_range = "custom" ->
                IF duration <= 3600 THEN pair(<<"1", "m">>, <<"5", "m">>)
                ELSE IF duration <= 4 * 3600 THEN pair(<<"5", "m">>, <<"5", "m">>)
                ELSE IF duration <= 24 * 3600 THEN pair(<<"1", "h">>, <<"1", "h">>)
                ELSE IF duration <= 7 * 24 * 3600 THEN pair(<<"3", "0", "m">>, <<"6", "h">>)
                ELSE IF duration <= 30 * 24 * 3600 THEN pair(<<"1", "d">>, <<"1", "d">>)
                ELSE pair(<<"3", "d">>, <<"3", "d">>)
          [] OTHER -> pair(<<"1", "m">>, <<"5", "m">>)

\* StepAndWindow with the rate window of the shortest windows equal to the step.
StepAndWindow_MatchingMinute(time_range, start_time, end_time) ==
    LET pair(step, window) == [step |-> step, rate_window |-> window]
        duration == end_time - start_time
    IN  CASE time_range = "15m" -> pair(<<"1", "m">>, <<"1", "m">>)
          [] time_range = "1h" -> pair(<<"1", "m">>, <<"1", "m">>)
          [] time_range = "4h" -> pair(<<"5", "m">>, <<"5", "m">>)
          [] time_range = "1d" -> pair(<<"1", "h">>, <<"1", "h">>)
          [] time_range = "7d" -> pair(<<"6", "h">>, <<"6", "h">>)
          [] time_range = "30d" -> pair(<<"1", "d">>, <<"1", "d">>)
          [] time_range = "90d" -> pair(<<"3", "d">>, <<"3", "d">>)
          [] time_range = "custom" ->
                IF duration <= 3600 THEN pair(<<"1", "m">>, <<"1", "m">>)
                ELSE IF duration <= 4 * 3600 THEN pair(<<"5", "m">>, <<"5", "m">>)
                ELSE IF duration <= 24 * 3600 THEN pair(<<"1", "h">>, <<"1", "h">>)
                ELSE IF duration <= 7 * 24 * 3600 THEN pair(<<"6", "h">>, <<"6", "h">>)
                ELSE IF duration <= 30 * 24 * 3600 THEN pair(<<"1", "d">>, <<"1", "d">>)
                ELSE pair(<<"3", "d">>, <<"3", "d">>)
          [] OTHER -> pair(<<"1", "m">>, <<"1", "m">>)

\* The (step, rate_window) table of get_dashboard_metrics
StepAndWindow(time_range, start_time, end_time) ==
    LET pair(step, window) == [step |-> step, rate_window |-> window]
        duration == end_time - start_time
    IN  CASE time_range = "15m" -> pair(<<"1", "m">>, <<"5", "m">>)
          [] time_range = "1h" -> pair(<<"1", "m">>, <<"5", "m">>)
          [] time_range = "4h" -> pair(<<"5", "m">>, <<"5", "m">>)
          [] time_range = "1d" -> pair(<<"1", "h">>, <<"1", "h">>)
          [] time_range = "7d" -> pair(<<"6", "h">>, <<"6", "h">>)
          [] time_range = "30d" -> pair(<<"1", "d">>, <<"1", "d">>)
          [] time_range = "90d" -> pair(<<"3", "d">>, <<"3", "d">>)
          [] time_range = "custom" ->
                IF duration <= 3600 THEN pair(<<"1", "m">>, <<"5", "m">>)
                ELSE IF duration <= 4 * 3600 THEN pair(<<"5", "m">>, <<"5", "m">>)
                ELSE IF duration <= 24 * 3600 THEN pair(<<"1", "h">>, <<"1", "h">>)
                ELSE IF duration <= 7 * 24 * 3600 THEN pair(<<"6", "h">>, <<"6", "h">>)
                ELSE IF duration <= 30 * 24 * 3600 THEN pair(<<"1", "d">>, <<"1", "d">>)
                ELSE pair(<<"3", "d">>, <<"3", "d">>)
          [] OTHER -> pair(<<"1", "m">>, <<"5", "m">>)

\* The locals that become the DashboardMetrics record, before any query
DashboardZero ==
    [total_tokens |-> 0, input_tokens |-> 0, output_tokens |-> 0,
     cache_read_tokens |-> 0, cache_creation_tokens |-> 0, total_cost_usd |-> 0,
     active_time_seconds |-> 0, session_count |-> 0, lines_added |-> 0,
     lines_removed |-> 0, commit_count |-> 0, pull_request_count |-> 0,
     tokens_by_model |-> <<>>, tokens_over_time |-> <<>>]

MetricFields == DOMAIN DashboardZero

\* `Ok(DashboardMetrics { .. })`
DashboardMetrics(l) == [f \in MetricFields |-> l[f]]

\* Inputs of the calls: the tokens (the table's, "custom", and one the table
\* does not know), the optional custom bounds, the clock values.
DashboardTokens == {"15m", "1h", "4h", "1d", "7d", "30d", "90d"}

TimeRanges == DashboardTokens \cup {"custom", "24h"}

CustomEarly == 17 * 100000000

CustomTimes == {CustomEarly, CustomEarly + 1800, CustomEarly + 90000}

OptionalTimes == {None} \cup {Some(t) : t \in CustomTimes}

CustomInputs(isCustom) ==
    IF isCustom THEN OptionalTimes \X OptionalTimes
    ELSE {<<None, None>>, <<Some(CustomEarly), Some(CustomEarly + 1800)>>}

Clock == {CustomEarly + 100000, CustomEarly + 100007}

\* Responses to the queries of the dashboard.
ScalarResponses ==
    {TransportFailure, UndecodableBody,
     Envelope("error", <<SampleRow(Str42)>>),
     Envelope("success", <<>>),
     Envelope("success", <<NoValueRow>>),
     Envelope("success", <<SampleRow(StrJunk)>>),
     Envelope("success", <<SampleRow(Str7)>>),
     Envelope("success", <<SampleRow(<<"-", "7">>)>>),
     Envelope("success", <<SampleRow(Str7), SampleRow(Str42)>>),
     Envelope("success", <<SampleRow(StrJunk), SampleRow(Str42)>>)}

ScalarTypical == Typical(server, <<SampleRow(Str42)>>)

ModelRows ==
    {LabelledRow("model", "opus", Str42), LabelledRow("model", "sonnet", Str7),
     LabelledRow("type", "input", Str7), LabelledRow("model", "haiku", StrJunk),
     Row({<<"model", "opus">>}, None, None)}

ModelResponses ==
    {TransportFailure, Envelope("error", <<>>)}
        \cup {Envelope("success", rows) : rows \in SeqsUpTo(ModelRows, MaxRows)}

ModelTypical ==
    Typical(server, <<LabelledRow("model", "opus", Str42), LabelledRow("model", "sonnet", Str7)>>)

SeriesPoints == {<<SampleTime, Str42>>, <<SampleTime + 60, StrJunk>>, <<SampleTime + 120, Str7>>}

SeriesResponses ==
    {TransportFailure, Envelope("error", <<>>), Envelope("success", <<>>),
     Envelope("success", <<NoValueRow>>)}
        \cup {Envelope("success", <<SeriesRow(pts)>>) : pts \in SeqsUpTo(SeriesPoints, MaxRows)}

SeriesTypical ==
    Typical(server, <<SeriesRow(<< <<SampleTime, Str42>>, <<SampleTime + 60, Str7>> >>)>>)

\* get_dashboard_metrics is invoked: the client is built, the range resolved.
DashStart ==
    /\ pc = "idle"
    /\ \E time_range \in TimeRanges, n \in Clock :
       \E bounds \in CustomInputs(time_range = "custom") :
          LET window == DashboardWindow(time_range, bounds[1], bounds[2], n)
          IN  /\ cmd' = "get_dashboard_metrics"
              /\ args' = [time_range |-> time_range, custom_start |-> bounds[1],
                          custom_end |-> bounds[2]]
              /\ now' = IF time_range = "custom" THEN None ELSE Some(n)
              /\ IF window.ok
                 THEN /\ locals' = [f \in DOMAIN window.val \cup MetricFields |->
                                       IF f \in MetricFields THEN DashboardZero[f]
                                       ELSE window.val[f]]
                      /\ pc' = "run"
                      /\ stage' = 1
                      /\ ret' = ret
                 ELSE /\ locals' = locals
                      /\ pc' = "done"
                      /\ stage' = stage
                      /\ ret' = window
    /\ UNCHANGED <<server, budget, issued, failed, last>>

\* One of the twelve scalar queries: sent, answered, coerced or propagated.
DashScalarQuery ==
    /\ cmd = "get_dashboard_metrics"
    /\ pc = "run"
    /\ stage \in 1..NumScalars
    /\ \E resp \in Answers(ScalarResponses, ScalarTypical) :
          LET q == DashboardQueries[stage]
              r == DecodeQueryResponse(resp)
              v == ScalarResult(r, q.cast)
          IN  /\ issued' = Append(issued,
                              QueryRequest(FormatQuery(q.head, locals.range_str, q.tail)))
              /\ last' = resp
              /\ budget' = Spend(resp, ScalarTypical)
              /\ failed' = IF r.ok THEN failed ELSE failed + 1
              /\ IF v.ok
                 THEN /\ locals' = [locals EXCEPT ![q.field] = v.val]
                      /\ pc' = pc
                      /\ stage' = stage + 1
                      /\ ret' = ret
                 ELSE /\ locals' = locals
                      /\ pc' = "done"
                      /\ stage' = stage
                      /\ ret' = v
    /\ UNCHANGED <<cmd, args, now, server>>

\* The grouped query for tokens by model.
DashModelQuery ==
    /\ cmd = "get_dashboard_metrics"
    /\ pc = "run"
    /\ stage = ModelQueryStep
    /\ \E resp \in Answers(ModelResponses, ModelTypical) :
          LET r == DecodeQueryResponse(resp)
          IN  /\ issued' = Append(issued,
                              QueryRequest(FormatQuery(ModelQueryHead, locals.range_str, "]))")))
              /\ last' = resp
              /\ budget' = Spend(resp, ModelTypical)
              /\ failed' = IF r.ok THEN failed ELSE failed + 1
              /\ IF r.ok
                 THEN /\ locals' = [locals EXCEPT !.tokens_by_model = TokensByModel(r.val)]
                      /\ pc' = pc
                      /\ stage' = stage + 1
                      /\ ret' = ret
                 ELSE /\ locals' = locals
                      /\ pc' = "done"
                      /\ stage' = stage
                      /\ ret' = Err(ErrorToString(r.err))
    /\ UNCHANGED <<cmd, args, now, server>>

\* The range query for the series, and the return of the summary.
DashRangeQuery ==
    /\ cmd = "get_dashboard_metrics"
    /\ pc = "run"
    /\ stage = RangeQueryStep
    /\ \E resp \in Answers(SeriesResponses, SeriesTypical) :
          LET r == DecodeQueryResponse(resp)
              sw == StepAndWindow(args.time_range, locals.start_time, locals.end_time)
              query == FormatQuery(RateQueryHead, sw.rate_window, "]))")
          IN  /\ issued' = Append(issued,
                              QueryRangeRequest(query, locals.start_time, locals.end_time,
                                                sw.step))
              /\ last' = resp
              /\ budget' = Spend(resp, SeriesTypical)
              /\ failed' = IF r.ok THEN failed ELSE failed + 1
              /\ pc' = "done"
              /\ stage' = stage
              /\ IF r.ok
                 THEN /\ locals' = [locals EXCEPT !.tokens_over_time = TokensOverTime(r.val)]
                      /\ ret' = Ok(DashboardMetrics(locals'))
                 ELSE /\ locals' = locals
                      /\ ret' = Err(ErrorToString(r.err))
    /\ UNCHANGED <<cmd, args, now, server>>

InitDashboard == InitCommon /\ budget = MaxFaults

NextDashboard ==
    \/ DashStart
    \/ DashScalarQuery
    \/ DashModelQuery
    \/ DashRangeQuery

SpecDashboard == InitDashboard /\ [][NextDashboard]_vars

(***************************************************************************)
(* prometheus_health.rs: fetch_prometheus_health                           *)
(***************************************************************************)
\* impl Default for PrometheusHealthMetrics
HealthDefault ==
    [is_ready |-> FALSE, uptime_seconds |-> 0, version |-> "", go_version |-> "",
     storage_blocks_bytes |-> 0, storage_wal_bytes |-> 0, storage_total_bytes |-> 0,
     storage_retention_limit_bytes |-> 0, storage_retention_limit_seconds |-> 0,
     head_series |-> 0, oldest_timestamp_seconds |-> 0, newest_timestamp_seconds |-> 0,
     blocks_loaded |-> 0, process_memory_bytes |-> 0, heap_inuse_bytes |-> 0,
     heap_alloc_bytes |-> 0, goroutines |-> 0, cpu_seconds_rate |-> 0,
     samples_appended_rate |-> 0, series_created_rate |-> 0, target_count |-> 0,
     scrape_duration_seconds |-> 0, scrape_samples |-> 0, compactions_failed |-> 0,
     compactions_total |-> 0, wal_corruptions |-> 0, config_reload_success |-> FALSE,
     config_reload_timestamp |-> 0, storage_over_time |-> <<>>,
     memory_over_time |-> <<>>, samples_rate_over_time |-> <<>>]

\* The instant queries that feed one scalar each, in the order of the source.
HealthQueries ==
    << [field |-> "uptime_seconds", query |-> "time() - process_start_time_seconds"],
       [field |-> "storage_blocks_bytes", query |-> "prometheus_tsdb_storage_blocks_bytes"],
       [field |-> "storage_wal_bytes", query |-> "prometheus_tsdb_wal_storage_size_bytes"],
       [field |-> "storage_retention_limit_bytes",
        query |-> "prometheus_tsdb_retention_limit_bytes"],
       [field |-> "storage_retention_limit_seconds",
        query |-> "prometheus_tsdb_retention_limit_seconds"],
       [field |-> "head_series", query |-> "prometheus_tsdb_head_series"],
       [field |-> "oldest_timestamp_seconds",
        query |-> "prometheus_tsdb_lowest_timestamp_seconds"],
       [field |-> "newest_timestamp_seconds",
        query |-> "prometheus_tsdb_head_max_time_seconds"],
       [field |-> "blocks_loaded", query |-> "prometheus_tsdb_blocks_loaded"],
       [field |-> "process_memory_bytes", query |-> "process_resident_memory_bytes"],
       [field |-> "heap_inuse_bytes", query |-> "go_memstats_heap_inuse_bytes"],
       [field |-> "heap_alloc_bytes", query |-> "go_memstats_heap_alloc_bytes"],
       [field |-> "goroutines", query |-> "go_goroutines"],
       [field |-> "cpu_seconds_rate", query |-> "rate(process_cpu_seconds_total[1m])"],
       [field |-> "samples_appended_rate",
        query |-> "rate(prometheus_tsdb_head_samples_appended_total[1m])"],
       [field |-> "series_created_rate",
        query |-> "rate(prometheus_tsdb_head_series_created_total[1m])"],
       [field |-> "target_count", query |-> "count(up)"],
       [field |-> "scrape_duration_seconds", query |-> "scrape_duration_seconds"],
       [field |-> "scrape_samples", query |-> "scrape_samples_scraped"],
       [field |-> "compactions_failed", query |-> "prometheus_tsdb_compactions_failed_total"],
       [field |-> "compactions_total", query |-> "prometheus_tsdb_compactions_total"],
       [field |-> "wal_corruptions", query |-> "prometheus_tsdb_wal_corruptions_total"],
       [field |-> "config_reload_success",
        query |-> "prometheus_config_last_reload_successful"],
       [field |-> "config_reload_timestamp",
        query |-> "prometheus_config_last_reload_success_timestamp_seconds"] >>

\* The three range queries, in the order of the source.
HealthRangeQueries ==
    << [field |-> "storage_over_time",
        query |-> "prometheus_tsdb_storage_blocks_bytes + prometheus_tsdb_wal_storage_size_bytes"],
       [field |-> "memory_over_time", query |-> "process_resident_memory_bytes"],
       [field |-> "samples_rate_over_time",
        query |-> "rate(prometheus_tsdb_head_samples_appended_total[1m])"] >>

\* Steps of the battery: the probe, the build-info query, the scalar queries,
\* the range queries.
ProbeStep == 1

BuildInfoStep == 2

FirstScalarStep == 3

LastScalarStep == FirstScalarStep + Len(HealthQueries) - 1

FirstRangeStep == LastScalarStep + 1

LastRangeStep == LastScalarStep + Len(HealthRangeQueries)

\* HealthStep without the 15-second tier.
HealthStep_NoQuarterMinute(start_time, end_time) ==
    LET duration == end_time - start_time
    IN  IF duration <= 3600 THEN <<"6", "0", "s">>
        ELSE IF duration <= 4 * 3600 THEN <<"3", "0", "0", "s">>
        ELSE IF duration <= 24 * 3600 THEN <<"9", "0", "0", "s">>
        ELSE <<"3", "6", "0", "0", "s">>

\* The sparkline step of fetch_prometheus_health
HealthStep(start_time, end_time) ==
    LET duration == end_time - start_time
    IN  IF duration <= 900 THEN <<"1", "5", "s">>
        ELSE IF duration <= 3600 THEN <<"6", "0", "s">>
        ELSE IF duration <= 4 * 3600 THEN <<"3", "0", "0", "s">>
        ELSE IF duration <= 24 * 3600 THEN <<"9", "0", "0", "s">>
        ELSE <<"3", "6", "0", "0", "s">>

\* OnProbe with the probe's error passed on instead of read as "not ready".
OnProbe_Propagate(m, r) ==
    IF r.ok THEN Ok([m EXCEPT !.is_ready = r.val]) ELSE Err(ErrorToString(r.err))

\* `metrics.is_ready = client.test_connection().await.unwrap_or(false)`
OnProbe(m, r) == Ok([m EXCEPT !.is_ready = IF r.ok THEN r.val ELSE FALSE])

\* `.get(label).cloned().unwrap_or_default()`
LabelOrDefault(metric, label) == UnwrapOr(Get(metric, label), "")

\* The build-info query: version and go_version from the first row's labels
OnBuildInfo(m, r) ==
    IF r.ok /\ Len(r.val) > 0
    THEN [m EXCEPT !.version = LabelOrDefault(r.val[1].metric, "version"),
                   !.go_version = LabelOrDefault(r.val[1].metric, "goversion")]
    ELSE m

\* `value.parse().unwrap_or(0.0)`, and `... == 1.0` for config_reload_success
HealthValue(field, value) ==
    IF field = "config_reload_success" THEN UnwrapOr(ParseF64(value), 0) = 1
    ELSE UnwrapOr(ParseF64(value), 0)

\* `metrics.storage_total_bytes = metrics.storage_blocks_bytes + metrics.storage_wal_bytes`:
\* the statement that follows the WAL query
AfterQuery(m, field) ==
    IF field = "storage_wal_bytes"
    THEN [m EXCEPT !.storage_total_bytes = FAdd(m.storage_blocks_bytes, m.storage_wal_bytes)]
    ELSE m

\* OnScalar with a client error ending the call, as in the dashboard.
OnScalar_FailFast(m, field, r) ==
    IF r.ok
    THEN Ok(AfterQuery(IF Len(r.val) > 0 /\ IsSome(r.val[1].value)
                       THEN [m EXCEPT ![field] = HealthValue(field, Unwrap(r.val[1].value)[2])]
                       ELSE m, field))
    ELSE Err(ErrorToString(r.err))

\* One scalar query: `if let Ok(results) .. if let Some(result) = results.first()
\* .. if let Some((_, value)) = &result.value { metrics.field = .. }`
OnScalar(m, field, r) ==
    Ok(AfterQuery(IF r.ok /\ Len(r.val) > 0 /\ IsSome(r.val[1].value)
                  THEN [m EXCEPT ![field] = HealthValue(field, Unwrap(r.val[1].value)[2])]
                  ELSE m, field))

\* The points of a sparkline: timestamps kept, values parsed or 0.0
HealthPoints(values) ==
    [i \in 1..Len(values) |->
        [timestamp |-> values[i][1], value |-> UnwrapOr(ParseF64(values[i][2]), 0)]]

\* OnRange with a range query that brings no series clearing the sparklines
\* gathered so far.
OnRange_Clearing(m, field, r) ==
    IF r.ok /\ Len(r.val) > 0 /\ IsSome(r.val[1].values)
    THEN [m EXCEPT ![field] = HealthPoints(Unwrap(r.val[1].values))]
    ELSE [m EXCEPT !.storage_over_time = <<>>, !.memory_over_time = <<>>,
                   !.samples_rate_over_time = <<>>]

\* One range query
OnRange(m, field, r) ==
    IF r.ok /\ Len(r.val) > 0 /\ IsSome(r.val[1].values)
    THEN [m EXCEPT ![field] = HealthPoints(Unwrap(r.val[1].values))]
    ELSE m

HealthFields == DOMAIN HealthDefault

\* `Ok(metrics)`
HealthMetrics(l) == [f \in HealthFields |-> l[f]]

\* `let mut metrics = PrometheusHealthMetrics::default();` beside the window
HealthLocals(window) ==
    [f \in HealthFields \cup {"start_time", "end_time"} |->
        IF f \in HealthFields THEN HealthDefault[f] ELSE window[f]]

\* Responses to the queries of the health battery.
HealthScalarResponses ==
    {TransportFailure, Envelope("error", <<SampleRow(Str42)>>),
     Envelope("success", <<>>), Envelope("success", <<NoValueRow>>),
     Envelope("success", <<SampleRow(StrJunk)>>),
     Envelope("success", <<SampleRow(<<"1">>)>>)}

BuildInfoRow == Row({<<"version", "2.45.0">>, <<"goversion", "go1.21.0">>},
                    Some(<<SampleTime, <<"1">>>>), None)

BuildInfoResponses ==
    {TransportFailure, Envelope("error", <<BuildInfoRow>>), Envelope("success", <<>>),
     Envelope("success", <<Row({<<"version", "2.45.0">>}, Some(<<SampleTime, <<"1">>>>), None)>>)}

BuildInfoTypical == Typical(server, <<BuildInfoRow>>)

HealthTokens == {None} \cup {Some(t) : t \in TimeRanges}

\* The windows fetch_prometheus_health is called with on its own.
FetchWindows ==
    {[start_time |-> CustomEarly, end_time |-> CustomEarly + 1800],
     [start_time |-> CustomEarly, end_time |-> CustomEarly + 90000]}

\* get_prometheus_health is invoked: the clock is read, the window resolved,
\* fetch_prometheus_health entered.
HealthStart ==
    /\ pc = "idle"
    /\ \E time_range \in HealthTokens, n \in Clock :
       \E bounds \in CustomInputs(time_range = Some("custom")) :
          LET window == HealthWindow(time_range, bounds[1], bounds[2], n)
          IN  /\ cmd' = "get_prometheus_health"
              /\ args' = [time_range |-> time_range, custom_start |-> bounds[1],
                          custom_end |-> bounds[2]]
              /\ now' = Some(n)
              /\ IF window.ok
                 THEN /\ locals' = HealthLocals(window.val)
                      /\ pc' = "run"
                      /\ stage' = ProbeStep
                      /\ ret' = ret
                 ELSE /\ locals' = locals
                      /\ pc' = "done"
                      /\ stage' = stage
                      /\ ret' = window
    /\ UNCHANGED <<server, budget, issued, failed, last>>

\* fetch_prometheus_health is called with a window of its caller's.
FetchStart ==
    /\ pc = "idle"
    /\ \E window \in FetchWindows :
          /\ cmd' = "fetch_prometheus_health"
          /\ args' = window
          /\ locals' = HealthLocals(window)
    /\ pc' = "run"
    /\ stage' = ProbeStep
    /\ UNCHANGED <<now, server, budget, issued, failed, last, ret>>

InHealthBattery ==
    /\ cmd \in {"get_prometheus_health", "fetch_prometheus_health"}
    /\ pc = "run"

\* The readiness probe.
HealthProbe ==
    /\ InHealthBattery
    /\ stage = ProbeStep
    /\ \E resp \in Answers(ProbeResponses, ProbeTypical) :
          LET r == ClientTestConnection(resp)
              m == OnProbe(locals, r)
          IN  /\ issued' = Append(issued, HealthyRequest)
              /\ last' = resp
              /\ budget' = Spend(resp, ProbeTypical)
              /\ failed' = IF r.ok THEN failed ELSE failed + 1
              /\ IF m.ok
                 THEN /\ locals' = m.val
                      /\ pc' = pc
                      /\ stage' = stage + 1
                      /\ ret' = ret
                 ELSE /\ locals' = locals
                      /\ pc' = "done"
                      /\ stage' = stage
                      /\ ret' = m
    /\ UNCHANGED <<cmd, args, now, server>>

\* The build-info query.
HealthBuildInfo ==
    /\ InHealthBattery
    /\ stage = BuildInfoStep
    /\ \E resp \in Answers(BuildInfoResponses, BuildInfoTypical) :
          LET r == DecodeQueryResponse(resp)
          IN  /\ issued' = Append(issued, QueryRequest("prometheus_build_info"))
              /\ last' = resp
              /\ budget' = Spend(resp, BuildInfoTypical)
              /\ failed' = IF r.ok THEN failed ELSE failed + 1
              /\ locals' = OnBuildInfo(locals, r)
    /\ stage' = stage + 1
    /\ UNCHANGED <<cmd, pc, args, now, server, ret>>

\* One of the scalar queries.
HealthScalarQuery ==
    /\ InHealthBattery
    /\ stage \in FirstScalarStep..LastScalarStep
    /\ \E resp \in Answers(HealthScalarResponses, ScalarTypical) :
          LET q == HealthQueries[stage - FirstScalarStep + 1]
              r == DecodeQueryResponse(resp)
              m == OnScalar(locals, q.field, r)
          IN  /\ issued' = Append(issued, QueryRequest(q.query))
              /\ last' = resp
              /\ budget' = Spend(resp, ScalarTypical)
              /\ failed' = IF r.ok THEN failed ELSE failed + 1
              /\ IF m.ok
                 THEN /\ locals' = m.val
                      /\ pc' = pc
                      /\ stage' = stage + 1
                      /\ ret' = ret
                 ELSE /\ locals' = locals
                      /\ pc' = "done"
                      /\ stage' = stage
                      /\ ret' = m
    /\ UNCHANGED <<cmd, args, now, server>>

\* One of the range queries; after the last one the summary is returned.
HealthRangeQuery ==
    /\ InHealthBattery
    /\ stage \in FirstRangeStep..LastRangeStep
    /\ \E resp \in Answers(SeriesResponses, SeriesTypical) :
          LET q == HealthRangeQueries[stage - FirstRangeStep + 1]
              r == DecodeQueryResponse(resp)
          IN  /\ issued' = Append(issued,
                              QueryRangeRequest(q.query, locals.start_time, locals.end_time,
                                                HealthStep(locals.start_time, locals.end_time)))
              /\ last' = resp
              /\ budget' = Spend(resp, SeriesTypical)
              /\ failed' = IF r.ok THEN failed ELSE failed + 1
              /\ locals' = OnRange(locals, q.field, r)
    /\ IF stage = LastRangeStep
       THEN /\ pc' = "done"
            /\ stage' = stage
            /\ ret' = Ok(HealthMetrics(locals'))
       ELSE /\ pc' = pc
            /\ stage' = stage + 1
            /\ ret' = ret
    /\ UNCHANGED <<cmd, args, now, server>>

InitHealth == InitCommon /\ budget = MaxFaults

NextHealth ==
    \/ FetchStart
    \/ HealthProbe
    \/ HealthBuildInfo
    \/ HealthScalarQuery
    \/ HealthRangeQuery

SpecHealth == InitHealth /\ [][NextHealth]_vars

(***************************************************************************)
(* The two commands behind a server that behaves as its state says         *)
(***************************************************************************)
Init == InitCommon /\ budget = 0

Next ==
    \/ DashStart
    \/ DashScalarQuery
    \/ DashModelQuery
    \/ DashRangeQuery
    \/ HealthStart
    \/ HealthProbe
    \/ HealthBuildInfo
    \/ HealthScalarQuery
    \/ HealthRangeQuery

Spec == Init /\ [][Next]_vars

(***************************************************************************)
(* Claims about the dashboard battery (under SpecDashboard)                *)
(***************************************************************************)
InDashboard == cmd = "get_dashboard_metrics"

\* C1: get_dashboard_metrics fails on the first query that returns a client
\* error: it returns that error as a string and no DashboardMetrics, the
\* failed query is the last request it sends (none of the queries after it in
\* the fixed order is issued), and no request is sent twice.
C1_FailFast ==
    InDashboard =>
        /\ failed <= 1
        /\ failed = 1 =>
              /\ pc = "done"
              /\ ~ret.ok
              /\ ~DecodeQueryResponse(last).ok
              /\ ret.err = ErrorToString(DecodeQueryResponse(last).err)
              /\ Len(issued) = stage
        /\ (pc = "done" /\ ret.ok) => (failed = 0 /\ Len(issued) = RangeQueryStep)
        /\ \A i, j \in 1..Len(issued) : i < j => issued[i] /= issued[j]
        /\ \A i \in 1..Len(issued) :
              /\ i <= NumScalars =>
                    issued[i] = QueryRequest(FormatQuery(DashboardQueries[i].head,
                                                         locals.range_str,
                                                         DashboardQueries[i].tail))
              /\ i = ModelQueryStep => issued[i].params[1][2][1] = ModelQueryHead
              /\ i = RangeQueryStep => issued[i].path = "/api/v1/query_range"

\* The cost query (the sixth) fails after five queries that brought samples.
C1_Witness ==
    /\ InDashboard
    /\ pc = "done"
    /\ failed = 1
    /\ stage = 6
    /\ locals.total_tokens = 42
    /\ ~ret.ok

IsSecondsLiteral(lit, secs) ==
    /\ Len(lit) >= 2
    /\ lit[Len(lit)] = "s"
    /\ AllDigits(SubSeq(lit, 1, Len(lit) - 1))
    /\ DigitsValue(SubSeq(lit, 1, Len(lit) - 1)) = secs

ParamOf(request, name) ==
    (CHOOSE p \in {request.params[i] : i \in 1..Len(request.params)} : p[1] = name)[2]

C2_AlwaysOk ==
    (InHealthBattery \/ (cmd = "fetch_prometheus_health" /\ pc = "done")) =>
        /\ failed <= Len(issued)
        /\ pc = "done" =>
              /\ ret.ok
              /\ Len(issued) = LastRangeStep
              /\ failed = Len(issued) => ret.val = HealthDefault

\* Every exchange of the battery has failed and the default came back.
C2_Witness ==
    /\ cmd = "fetch_prometheus_health"
    /\ pc = "done"
    /\ failed = LastRangeStep
    /\ ret.ok
    /\ ret.val = HealthDefault

(***************************************************************************)
(* Claims about range resolution in the two commands (under Spec)          *)
(***************************************************************************)
InCommand(c) == cmd = c /\ pc /= "idle"

\* The token of the call ("" when the health command got none).
TokenOf(c) ==
    IF c = "get_prometheus_health" THEN UnwrapOr(args.time_range, "") ELSE args.time_range

Commands == {"get_dashboard_metrics", "get_prometheus_health"}

\* The durations the specification tabulates for the supported tokens.
TableSeconds(token) ==
    CASE token = "15m" -> 900
      [] token = "1h" -> 3600
      [] token = "4h" -> 14400
      [] token = "1d" -> 86400
      [] token = "7d" -> 604800
      [] token = "30d" -> 2592000
      [] token = "90d" -> 7776000

\* C4: for every supported token both commands resolve the range to
\* (start, end) with end the clock value read during the call and end - start
\* the token's duration in seconds, and send their range queries with it.
C4_PresetWindow ==
    \A c \in Commands :
        (InCommand(c) /\ TokenOf(c) \in DashboardTokens) =>
            /\ IsSome(now)
            /\ locals.end_time = Unwrap(now)
            /\ locals.end_time - locals.start_time = TableSeconds(TokenOf(c))
            /\ \A i \in 1..Len(issued) :
                  issued[i].path = "/api/v1/query_range" =>
                      /\ DigitsValue(ParamOf(issued[i], "end")) = Unwrap(now)
                      /\ DigitsValue(ParamOf(issued[i], "start"))
                            = Unwrap(now) - TableSeconds(TokenOf(c))

\* The health command has run with "90d" to its end.
C4_Witness ==
    /\ InCommand("get_prometheus_health")
    /\ args.time_range = Some("90d")
    /\ pc = "done"
    /\ ret.ok
    /\ locals.end_time - locals.start_time = 7776000

IsCustom(c) == TokenOf(c) = "custom"

\* C6: with time_range "custom" and a bound absent, both commands return an
\* error without sending any request; with both bounds present neither fails
\* at range resolution (a call that failed has sent a request).
C6_CustomNeedsBothBounds ==
    \A c \in Commands :
        (InCommand(c) /\ IsCustom(c)) =>
            IF ~IsSome(args.custom_start) \/ ~IsSome(args.custom_end)
            THEN pc = "done" /\ ~ret.ok /\ issued = <<>>
            ELSE /\ locals.start_time = Unwrap(args.custom_start)
                 /\ locals.end_time = Unwrap(args.custom_end)
                 /\ (pc = "done" /\ ~ret.ok) => Len(issued) > 0

\* The dashboard command was refused for want of custom_end.
C6_Witness ==
    /\ InCommand("get_dashboard_metrics")
    /\ args.time_range = "custom"
    /\ IsSome(args.custom_start)
    /\ ~IsSome(args.custom_end)
    /\ pc = "done"
    /\ ~ret.ok
    /\ issued = <<>>

IsUnknown(c) == TokenOf(c) \notin DashboardTokens \cup {"custom"}

ShortestSeconds ==
    CHOOSE d \in {time_range_to_seconds(t) : t \in DashboardTokens} :
        \A t \in DashboardTokens : d <= time_range_to_seconds(t)

\* C7 as stated: in both commands a token outside the table (for the health
\* command also an absent one) never produces an error and resolves to the
\* shortest supported duration, 15 minutes.
C7_UnknownIsShortest ==
    \A c \in Commands :
        (InCommand(c) /\ IsUnknown(c)) =>
            /\ (pc = "done" /\ ~ret.ok) => Len(issued) > 0
            /\ locals.end_time - locals.start_time = 15 * 60

\* C7 amended: an unknown (or, for the health command, absent) token never
\* produces an error in either command; it resolves to the shortest supported
\* duration, 15 minutes, in get_dashboard_metrics and to one hour in
\* get_prometheus_health.
C7_UnknownFallback ==
    \A c \in Commands :
        (InCommand(c) /\ IsUnknown(c)) =>
            /\ (pc = "done" /\ ~ret.ok) => Len(issued) > 0
            /\ locals.end_time = Unwrap(now)
            /\ c = "get_dashboard_metrics" =>
                  /\ locals.end_time - locals.start_time = 15 * 60
                  /\ ShortestSeconds = 15 * 60
            /\ c = "get_prometheus_health" =>
                  locals.end_time - locals.start_time = 3600

\* The health command has run without a token over a window of one hour.
C7_Witness ==
    /\ InCommand("get_prometheus_health")
    /\ args.time_range = None
    /\ pc = "done"
    /\ ret.ok
    /\ locals.end_time - locals.start_time = 3600

(***************************************************************************)
(* sessions.rs: the history log                                            *)
(*                                                                         *)
(* A count of milliseconds is held as <<seconds, milliseconds>> with       *)
(* 0 <= milliseconds < 1000: the model checker's integers are 32 bits wide *)
(* and 720 * 60 * 60 * 1000 is not.  A path is the sequence of its         *)
(* components, a project name a path of one component.                     *)
(***************************************************************************)
Millis(secs, ms) == <<secs, ms>>

\* a < b on i64 milliseconds
MsLess(a, b) == a[1] < b[1] \/ (a[1] = b[1] /\ a[2] < b[2])

\* a - b on i64 milliseconds
MsMinus(a, b) ==
    IF a[2] >= b[2] THEN <<a[1] - b[1], a[2] - b[2]>>
    ELSE <<a[1] - b[1] - 1, a[2] + 1000 - b[2]>>

\* time_range_to_millis with one hour for a token the table does not know.
time_range_to_millis_HourDefault(range) ==
    LET hours == CASE range = "1h" -> 1
                   [] range = "8h" -> 8
                   [] range = "24h" -> 24
                   [] range = "2d" -> 48
                   [] range = "7d" -> 168
                   [] range = "30d" -> 720
                   [] OTHER -> 1
    IN  Millis(hours * 60 * 60, 0)

\* sessions::time_range_to_millis: hours * 60 * 60 * 1000
time_range_to_millis(range) ==
    LET hours == CASE range = "1h" -> 1
                   [] range = "8h" -> 8
                   [] range = "24h" -> 24
                   [] range = "2d" -> 48
                   [] range = "7d" -> 168
                   [] range = "30d" -> 720
                   [] OTHER -> 24
    IN  Millis(hours * 60 * 60, 0)

\* sessions::time_range_to_promql
sessions_time_range_to_promql(range) ==
    CASE range = "1h" -> <<"1", "h">>
      [] range = "8h" -> <<"8", "h">>
      [] range = "24h" -> <<"2", "4", "h">>
      [] range = "2d" -> <<"2", "d">>
      [] range = "7d" -> <<"7", "d">>
      [] range = "30d" -> <<"3", "0", "d">>
      [] OTHER -> <<"2", "4", "h">>

\* sessions::extract_project_name: Path::file_name, or the path itself when
\* it has none (the root, or a path that ends in "..")
extract_project_name(path) ==
    IF Len(path) > 0 /\ path[Len(path)] /= ".." THEN <<path[Len(path)]>> ELSE path

\* The lines of history.jsonl: blank, not a HistoryEntry, unreadable, or an
\* object with the three fields of HistoryEntry.
BlankLine == [kind |-> "blank", timestamp |-> <<0, 0>>, project |-> <<>>, session_id |-> ""]

JunkLine == [kind |-> "junk", timestamp |-> <<0, 0>>, project |-> <<>>, session_id |-> ""]

UnreadableLine ==
    [kind |-> "unreadable", timestamp |-> <<0, 0>>, project |-> <<>>, session_id |-> ""]

EntryLine(timestamp, project, session_id) ==
    [kind |-> "entry", timestamp |-> timestamp, project |-> project,
     session_id |-> session_id]

\* serde_json::from_str::<HistoryEntry>(&line)
ParseHistoryEntry(line) ==
    IF line.kind = "entry"
    THEN Ok([timestamp |-> line.timestamp, project |-> line.project,
             session_id |-> line.session_id])
    ELSE Err("not a HistoryEntry")

\* The SessionMetrics record `or_insert` creates
NewSession(entry) ==
    [session_id |-> entry.session_id,
     project |-> Some(extract_project_name(entry.project)),
     project_path |-> Some(entry.project),
     timestamp |-> entry.timestamp,
     message_count |-> 1,
     total_cost_usd |-> 0, total_tokens |-> 0, input_tokens |-> 0, output_tokens |-> 0,
     cache_read_tokens |-> 0, cache_creation_tokens |-> 0, active_time_seconds |-> 0,
     tokens_by_model |-> <<>>]

\* HashMap::insert / get_mut on a map held as a function
MapPut(map, key, value) ==
    [k \in DOMAIN map \cup {key} |-> IF k = key THEN value ELSE map[k]]

EmptyMap == [k \in {} |-> 0]

\* FoldEntry with the timestamp of the latest line kept instead of the maximum.
FoldEntry_LastTimestamp(map, entry) ==
    IF entry.session_id \in DOMAIN map
    THEN MapPut(map, entry.session_id,
                [map[entry.session_id] EXCEPT
                    !.message_count = @ + 1,
                    !.timestamp = entry.timestamp])
    ELSE MapPut(map, entry.session_id, NewSession(entry))

\* `sessions_map.entry(..).and_modify(..).or_insert(..)`
FoldEntry(map, entry) ==
    IF entry.session_id \in DOMAIN map
    THEN MapPut(map, entry.session_id,
                [map[entry.session_id] EXCEPT
                    !.message_count = @ + 1,
                    !.timestamp = IF MsLess(@, entry.timestamp) THEN entry.timestamp ELSE @])
    ELSE MapPut(map, entry.session_id, NewSession(entry))

\* FoldLines with a line that does not parse ending the load with an error.
RECURSIVE FoldLines_FatalJunk(_, _, _)
FoldLines_FatalJunk(map, lines, cutoff) ==
    IF Len(lines) = 0 THEN Ok(map)
    ELSE LET line == Head(lines)
             parsed == ParseHistoryEntry(line)
         IN  IF line.kind = "unreadable" THEN Err(<<"Failed to read line: ", "stream">>)
             ELSE IF line.kind = "blank" THEN FoldLines_FatalJunk(map, Tail(lines), cutoff)
             ELSE IF ~parsed.ok THEN Err(<<"Failed to parse line: ", "json">>)
             ELSE IF MsLess(parsed.val.timestamp, cutoff)
                  THEN FoldLines_FatalJunk(map, Tail(lines), cutoff)
             ELSE FoldLines_FatalJunk(FoldEntry(map, parsed.val), Tail(lines), cutoff)

\* The loop of load_history_sessions over the lines that are left
RECURSIVE FoldLines(_, _, _)
FoldLines(map, lines, cutoff) ==
    IF Len(lines) = 0 THEN Ok(map)
    ELSE LET line == Head(lines)
             parsed == ParseHistoryEntry(line)
         IN  IF line.kind = "unreadable" THEN Err(<<"Failed to read line: ", "stream">>)
             ELSE IF line.kind = "blank" THEN FoldLines(map, Tail(lines), cutoff)
             ELSE IF ~parsed.ok THEN FoldLines(map, Tail(lines), cutoff)
             ELSE IF MsLess(parsed.val.timestamp, cutoff)
                  THEN FoldLines(map, Tail(lines), cutoff)
             ELSE FoldLines(FoldEntry(map, parsed.val), Tail(lines), cutoff)

\* What is on disk: whether a home directory is known, whether the history
\* file can be opened, and its lines.
Disk(home, present, lines) == [home |-> home, present |-> present, lines |-> lines]

\* sessions::load_history_sessions, n the clock value read (milliseconds)
load_history_sessions(time_range, disk, n) ==
    IF ~disk.home THEN Err(<<"Could not find home directory">>)
    ELSE IF ~disk.present
         THEN Err(<<"History file not found. Use Claude Code to generate usage data.">>)
    ELSE FoldLines(EmptyMap, disk.lines, MsMinus(n, time_range_to_millis(time_range)))

\* Inputs: the tokens of the sessions table and one it does not know, the
\* clock, and history entries at the one-hour cutoff, one millisecond before
\* it, and 41 days back.
SessionTokens == {"1h", "8h", "24h", "2d", "7d", "30d", "15m"}

SessionsNow == Millis(CustomEarly + 100000, 250)

AtHourCutoff == MsMinus(SessionsNow, Millis(3600, 0))

BeforeHourCutoff == MsMinus(SessionsNow, Millis(3600, 1))

Ancient == MsMinus(SessionsNow, Millis(41 * 24 * 3600, 0))

EntryTimes == {AtHourCutoff, BeforeHourCutoff, Ancient}

PathAlpha == <<"home", "u", "alpha">>

PathBeta == <<"home", "u", "beta">>

ProjectPaths == {PathAlpha, PathBeta}

SessionIds == {"s1", "s2"}

MaxLines == 3

EntryLines ==
    {EntryLine(t, p, sid) : t \in EntryTimes, p \in ProjectPaths, sid \in SessionIds}

HistoryLines == EntryLines \cup {BlankLine, JunkLine, UnreadableLine}

\* load_history_sessions is called on a history file of up to MaxLines lines.
CallLoadHistory ==
    /\ pc = "idle"
    /\ \E time_range \in SessionTokens, lines \in SeqsUpTo(HistoryLines, MaxLines) :
          /\ args' = [time_range |-> time_range, disk |-> Disk(TRUE, TRUE, lines)]
          /\ ret' = load_history_sessions(time_range, Disk(TRUE, TRUE, lines), SessionsNow)
    /\ cmd' = "load_history_sessions"
    /\ now' = Some(SessionsNow)
    /\ pc' = "done"
    /\ UNCHANGED <<stage, server, budget, issued, failed, locals, last>>

\* load_history_sessions is called without a home directory or a history file.
CallLoadHistoryAbsent ==
    /\ pc = "idle"
    /\ \E time_range \in SessionTokens, home \in BOOLEAN :
          /\ args' = [time_range |-> time_range, disk |-> Disk(home, FALSE, <<>>)]
          /\ ret' = load_history_sessions(time_range, Disk(home, FALSE, <<>>), SessionsNow)
    /\ cmd' = "load_history_sessions"
    /\ now' = None
    /\ pc' = "done"
    /\ UNCHANGED <<stage, server, budget, issued, failed, locals, last>>

InitHistory == InitCommon /\ budget = 0

NextHistory ==
    \/ CallLoadHistory
    \/ CallLoadHistoryAbsent

SpecHistory == InitHistory /\ [][NextHistory]_vars

\* The lines of the file that are well-formed entries inside the window.
InWindow(lines, time_range) ==
    SelectSeq(lines,
              LAMBDA l : /\ l.kind = "entry"
                         /\ ~MsLess(l.timestamp,
                                    MsMinus(SessionsNow, time_range_to_millis(time_range))))

LinesOf(lines, sid) == {i \in 1..Len(lines) : lines[i].session_id = sid}

\* C9: after folding the well-formed history lines that fall inside the
\* lookback window there is exactly one session record per distinct session
\* id; its message_count is the number of those lines with that id, its
\* timestamp the maximum of their timestamps, its project and project path
\* those of the first such line.
C9_SessionFolding ==
    (cmd = "load_history_sessions" /\ pc = "done" /\ ret.ok) =>
        LET lines == InWindow(args.disk.lines, args.time_range)
            map == ret.val
        IN  /\ DOMAIN map = {lines[i].session_id : i \in 1..Len(lines)}
            /\ \A sid \in DOMAIN map :
                  LET mine == LinesOf(lines, sid)
                      first == CHOOSE i \in mine : \A j \in mine : i <= j
                  IN  /\ map[sid].session_id = sid
                      /\ map[sid].message_count = Cardinality(mine)
                      /\ \E i \in mine : map[sid].timestamp = lines[i].timestamp
                      /\ \A i \in mine : ~MsLess(map[sid].timestamp, lines[i].timestamp)
                      /\ map[sid].project_path = Some(lines[first].project)
                      /\ map[sid].project = Some(<<lines[first].project[Len(lines[first].project)]>>)

\* Three lines of one session inside the window, the latest timestamp first
\* and the project changing: one record, count 3.
C9_Witness ==
    /\ cmd = "load_history_sessions"
    /\ pc = "done"
    /\ ret.ok
    /\ args.time_range = "7d"
    /\ args.disk.lines = <<EntryLine(AtHourCutoff, PathAlpha, "s1"),
                           EntryLine(BeforeHourCutoff, PathBeta, "s1"),
                           EntryLine(BeforeHourCutoff, PathAlpha, "s1")>>
    /\ DOMAIN ret.val = {"s1"}
    /\ ret.val["s1"].message_count = 3
    /\ ret.val["s1"].timestamp = AtHourCutoff

(***************************************************************************)
(* sessions.rs: enrichment, ordering, get_sessions_data                    *)
(***************************************************************************)
\* The four passes of enrich_with_prometheus, in the order they are made.
EnrichPasses ==
    << [pass |-> "cost",
        head |-> "sum by (session_id) (increase(claude_code_cost_usage_USD_total["],
       [pass |-> "tokens",
        head |-> "sum by (session_id) (increase(claude_code_token_usage_tokens_total["],
       [pass |-> "type",
        head |-> "sum by (session_id, type) (increase(claude_code_token_usage_tokens_total["],
       [pass |-> "time",
        head |-> "sum by (session_id) (increase(claude_code_active_time_seconds_total["] >>

NumPasses == Len(EnrichPasses)

EnrichQueryText(stg, time_range) ==
    FormatQuery(EnrichPasses[stg].head, sessions_time_range_to_promql(time_range), "]))")

\* `result.value.as_ref().and_then(|(_, v)| v.parse::<f64>().ok()).unwrap_or(0.0)`
RowValue(row) ==
    IF IsSome(row.value) THEN UnwrapOr(ParseF64(Unwrap(row.value)[2]), 0) ELSE 0

\* SetTokenType with every token type also written into total_tokens.
SetTokenType_AlsoTotal(session, token_type, tokens) ==
    CASE token_type = "input" -> [session EXCEPT !.input_tokens = tokens, !.total_tokens = tokens]
      [] token_type = "output" -> [session EXCEPT !.output_tokens = tokens, !.total_tokens = tokens]
      [] token_type = "cache_read" ->
            [session EXCEPT !.cache_read_tokens = tokens, !.total_tokens = tokens]
      [] token_type = "cache_creation" ->
            [session EXCEPT !.cache_creation_tokens = tokens, !.total_tokens = tokens]
      [] OTHER -> session

\* The `match token_type.as_str()` of the third pass
SetTokenType(session, token_type, tokens) ==
    CASE token_type = "input" -> [session EXCEPT !.input_tokens = tokens]
      [] token_type = "output" -> [session EXCEPT !.output_tokens = tokens]
      [] token_type = "cache_read" -> [session EXCEPT !.cache_read_tokens = tokens]
      [] token_type = "cache_creation" -> [session EXCEPT !.cache_creation_tokens = tokens]
      [] OTHER -> session

\* ApplyRow with a row of an unknown session creating a record for it.
ApplyRow_Upsert(map, pass, row) ==
    LET session_id == Get(row.metric, "session_id")
        sid == Unwrap(session_id)
    IN  IF ~IsSome(session_id) THEN map
        ELSE IF sid \notin DOMAIN map
        THEN MapPut(map, sid,
                    [session_id |-> sid, project |-> None, project_path |-> None,
                     timestamp |-> <<0, 0>>, message_count |-> 0,
                     total_cost_usd |-> RowValue(row), total_tokens |-> 0,
                     input_tokens |-> 0, output_tokens |-> 0, cache_read_tokens |-> 0,
                     cache_creation_tokens |-> 0, active_time_seconds |-> 0,
                     tokens_by_model |-> <<>>])
        ELSE CASE pass = "cost" -> [map EXCEPT ![sid].total_cost_usd = RowValue(row)]
               [] pass = "tokens" ->
                    [map EXCEPT ![sid].total_tokens = AsUnsigned(RowValue(row))]
               [] pass = "type" -> map
               [] OTHER -> [map EXCEPT ![sid].active_time_seconds = RowValue(row)]

\* The body of one pass's `for result in &..._results`
ApplyRow(map, pass, row) ==
    LET session_id == Get(row.metric, "session_id")
        token_type == Get(row.metric, "type")
        sid == Unwrap(session_id)
    IN  IF ~IsSome(session_id) THEN map
        ELSE IF pass = "type" /\ ~IsSome(token_type) THEN map
        ELSE IF sid \notin DOMAIN map THEN map
        ELSE CASE pass = "cost" -> [map EXCEPT ![sid].total_cost_usd = RowValue(row)]
               [] pass = "tokens" ->
                    [map EXCEPT ![sid].total_tokens = AsUnsigned(RowValue(row))]
               [] pass = "type" ->
                    [map EXCEPT ![sid] = SetTokenType(@, Unwrap(token_type),
                                                      AsUnsigned(RowValue(row)))]
               [] OTHER -> [map EXCEPT ![sid].active_time_seconds = RowValue(row)]

RECURSIVE ApplyRows(_, _, _)
ApplyRows(map, pass, rows) ==
    IF Len(rows) = 0 THEN map
    ELSE ApplyRows(ApplyRow(map, pass, Head(rows)), pass, Tail(rows))

\* OnEnrich with a client error ending the call, as in the dashboard.
OnEnrich_FailFast(map, pass, r) ==
    IF r.ok THEN Ok(ApplyRows(map, pass, r.val)) ELSE Err(ErrorToString(r.err))

\* `if let Ok(results) = client.query(..).await { .. }`: an error leaves the
\* map as it is
OnEnrich(map, pass, r) ==
    IF r.ok THEN Ok(ApplyRows(map, pass, r.val)) ELSE Ok(map)

\* The orders a Vec collected from a HashMap can have
Orderings(S) ==
    {q \in [1..Cardinality(S) -> S] : \A i, j \in 1..Cardinality(S) : q[i] = q[j] => i = j}

MapValues(map) == {map[k] : k \in DOMAIN map}

\* SessionBefore without the timestamp as tie-break.
SessionBefore_CostOnly(a, b) == FGreater(a.total_cost_usd, b.total_cost_usd)

\* The comparator of the session sort says Less: higher cost first, then the
\* later timestamp; costs that partial_cmp cannot order count as equal
SessionBefore(a, b) ==
    \/ FGreater(a.total_cost_usd, b.total_cost_usd)
    \/ FCmpEqual(a.total_cost_usd, b.total_cost_usd) /\ MsLess(b.timestamp, a.timestamp)

\* The comparator of the project sort says Less: higher cost first
ProjectBefore(a, b) == FGreater(a.total_cost_usd, b.total_cost_usd)

Before(order, a, b) ==
    IF order = "sessions" THEN SessionBefore(a, b)
    ELSE IF order = "projects" THEN ProjectBefore(a, b)
    ELSE a < b

\* One step of the sort: x moves left past every element it is Less than
\* and stops at the first one it is not.
RECURSIVE InsertLeft(_, _, _, _)
InsertLeft(order, sorted, x, k) ==
    IF k > 0 /\ Before(order, x, sorted[k])
    THEN InsertLeft(order, sorted, x, k - 1)
    ELSE SubSeq(sorted, 1, k) \o <<x>> \o SubSeq(sorted, k + 1, Len(sorted))

\* slice::sort_by on a short Vec: a stable sort by insertion
RECURSIVE SortBy(_, _, _)
SortBy(order, sorted, rest) ==
    IF Len(rest) = 0 THEN sorted
    ELSE SortBy(order, InsertLeft(order, sorted, Head(rest), Len(sorted)), Tail(rest))

\* The results `sessions.sort_by(..)` can give: the order the sort starts
\* from is the map's iteration order.
SortedSessions(map) ==
    {SortBy("sessions", <<>>, q) : q \in Orderings(MapValues(map))}

\* ProjectNameOf keyed by the project path instead of the display name.
ProjectNameOf_Path(session) == UnwrapOr(session.project_path, <<"Unknown">>)

\* `session.project.clone().unwrap_or_else(|| "Unknown".to_string())`
ProjectNameOf(session) == UnwrapOr(session.project, <<"Unknown">>)

\* The loop of aggregate_by_project
RECURSIVE FoldProjects(_, _)
FoldProjects(project_map, sessions) ==
    IF Len(sessions) = 0 THEN project_map
    ELSE LET session == Head(sessions)
             name == ProjectNameOf(session)
         IN  FoldProjects(
                IF name \in DOMAIN project_map
                THEN MapPut(project_map, name,
                            [project_map[name] EXCEPT
                                !.session_count = @ + 1,
                                !.total_cost_usd = FAdd(@, session.total_cost_usd),
                                !.total_tokens = @ + session.total_tokens,
                                !.active_time_seconds = FAdd(@, session.active_time_seconds)])
                ELSE MapPut(project_map, name,
                            [project |-> name,
                             project_path |-> session.project_path,
                             session_count |-> 1,
                             total_cost_usd |-> session.total_cost_usd,
                             total_tokens |-> session.total_tokens,
                             active_time_seconds |-> session.active_time_seconds]),
                Tail(sessions))

\* sessions::aggregate_by_project: the results it can give
aggregate_by_project(sessions) ==
    {SortBy("projects", <<>>, q) : q \in Orderings(MapValues(FoldProjects(EmptyMap, sessions)))}

SessionsData(sessions, projects) ==
    [sessions |-> sessions, projects |-> projects, total_count |-> Len(sessions)]

\* Inputs of get_sessions_data.
SessionRow(sid, v) == LabelledRow("session_id", sid, v)

TypeRow(sid, token_type, v) ==
    Row({<<"session_id", sid>>, <<"type", token_type>>}, Some(<<SampleTime, v>>), None)

SessionDataRows == <<SessionRow("s1", Str42), SessionRow("s2", Str7)>>

TypeDataRows ==
    <<TypeRow("s1", "input", Str42), TypeRow("s1", "output", Str7),
      TypeRow("s2", "cache_read", Str7), TypeRow("s2", "cache_creation", Str42)>>

SessionResponses ==
    {TransportFailure, UndecodableBody,
     Envelope("error", SessionDataRows),
     Envelope("success", <<SessionRow("s1", StrJunk), SessionRow("s9", Str7), SampleRow(Str7)>>),
     Envelope("success", <<SessionRow("s2", Str42), SessionRow("s1", <<"-", "7">>)>>),
     Envelope("success", <<SessionRow("s1", Str7), SessionRow("s2", StrNaN),
                           SessionRow("s3", Str42)>>),
     Envelope("success", <<SessionRow("s3", Str42)>>)}

TypeResponses ==
    {TransportFailure,
     Envelope("error", TypeDataRows),
     Envelope("success", <<TypeRow("s1", "cacheRead", Str7), SessionRow("s1", Str42),
                           TypeRow("s9", "input", Str7), TypeRow("s2", "output", StrJunk)>>)}

EnrichResponses(stg) == IF EnrichPasses[stg].pass = "type" THEN TypeResponses ELSE SessionResponses

EnrichTypical(stg) ==
    Typical(server, IF EnrichPasses[stg].pass = "type" THEN TypeDataRows ELSE SessionDataRows)

MaxSessionLines == 2

SessionLines ==
    {EntryLine(AtHourCutoff, PathAlpha, "s1"), EntryLine(BeforeHourCutoff, PathBeta, "s2"),
     EntryLine(AtHourCutoff, PathAlpha, "s2"), UnreadableLine}

\* Two more projects: one whose path differs from PathAlpha's and whose
\* display name does not, and a third name.
PathAlphaWork == <<"work", "alpha">>

PathGamma == <<"home", "u", "gamma">>

\* History files of three sessions, and of two paths with one display name.
LongerFiles ==
    {<<EntryLine(AtHourCutoff, PathAlpha, "s1"), EntryLine(BeforeHourCutoff, PathBeta, "s2"),
       EntryLine(BeforeHourCutoff, PathGamma, "s3")>>,
     <<EntryLine(AtHourCutoff, PathAlpha, "s1"), EntryLine(BeforeHourCutoff, PathBeta, "s2"),
       EntryLine(BeforeHourCutoff, PathAlphaWork, "s3")>>,
     <<EntryLine(AtHourCutoff, PathAlpha, "s1"), EntryLine(BeforeHourCutoff, PathAlphaWork, "s2")>>}

\* History files with one entry exactly as old as a window of the table and
\* one a millisecond older.
WindowHours == {1, 8, 24, 48, 168, 720}

BoundaryFiles ==
    {<<EntryLine(MsMinus(SessionsNow, Millis(h * 3600, 0)), PathAlpha, "s1"),
       EntryLine(MsMinus(SessionsNow, Millis(h * 3600, 1)), PathBeta, "s2")>> :
        h \in WindowHours}

SessionDisks ==
    {Disk(TRUE, TRUE, lines) :
        lines \in SeqsUpTo(SessionLines, MaxSessionLines) \cup LongerFiles \cup BoundaryFiles}
        \cup {Disk(TRUE, FALSE, <<>>), Disk(FALSE, FALSE, <<>>)}

\* get_sessions_data up to its first await: the history file is loaded; an
\* error there ends the call.
SessionsStart ==
    /\ pc = "idle"
    /\ \E time_range \in SessionTokens, disk \in SessionDisks :
          LET loaded == load_history_sessions(time_range, disk, SessionsNow)
          IN  /\ args' = [time_range |-> time_range, disk |-> disk]
              /\ now' = IF disk.present THEN Some(SessionsNow) ELSE None
              /\ IF loaded.ok
                 THEN /\ locals' = loaded.val
                      /\ pc' = "run"
                      /\ stage' = 1
                      /\ ret' = ret
                 ELSE /\ locals' = locals
                      /\ pc' = "done"
                      /\ stage' = stage
                      /\ ret' = loaded
    /\ cmd' = "get_sessions_data"
    /\ UNCHANGED <<server, budget, issued, failed, last>>

\* One enrichment query and its pass over the map; after the fourth the
\* sessions are sorted, aggregated by project and returned.
SessionsEnrich ==
    /\ cmd = "get_sessions_data"
    /\ pc = "run"
    /\ stage \in 1..NumPasses
    /\ \E resp \in Answers(EnrichResponses(stage), EnrichTypical(stage)) :
          LET r == DecodeQueryResponse(resp)
              m == OnEnrich(locals, EnrichPasses[stage].pass, r)
          IN  /\ issued' = Append(issued, QueryRequest(EnrichQueryText(stage, args.time_range)))
              /\ last' = resp
              /\ budget' = Spend(resp, EnrichTypical(stage))
              /\ failed' = IF r.ok THEN failed ELSE failed + 1
              /\ IF ~m.ok
                 THEN /\ locals' = locals
                      /\ pc' = "done"
                      /\ stage' = stage
                      /\ ret' = m
                 ELSE IF stage < NumPasses
                 THEN /\ locals' = m.val
                      /\ pc' = pc
                      /\ stage' = stage + 1
                      /\ ret' = ret
                 ELSE /\ locals' = m.val
                      /\ pc' = "done"
                      /\ stage' = stage
                      /\ \E sessions \in SortedSessions(m.val) :
                            \E projects \in aggregate_by_project(sessions) :
                               ret' = Ok(SessionsData(sessions, projects))
    /\ UNCHANGED <<cmd, args, now, server>>

InitSessions == InitCommon /\ budget = MaxFaults + 1

NextSessions ==
    \/ SessionsStart
    \/ SessionsEnrich

SpecSessions == InitSessions /\ [][NextSessions]_vars

ZeroTotals(session) ==
    /\ session.total_cost_usd = 0
    /\ session.total_tokens = 0
    /\ session.input_tokens = 0
    /\ session.output_tokens = 0
    /\ session.cache_read_tokens = 0
    /\ session.cache_creation_tokens = 0
    /\ session.active_time_seconds = 0

\* C10: get_sessions_data succeeds whenever the local history file loads,
\* whichever of the four enrichment queries fail (it fails only when the
\* file does not load, before any query is sent); when all four fail every
\* loaded session is returned with zero cost, token and active-time totals.
C10_EnrichmentBestEffort ==
    (cmd = "get_sessions_data" /\ pc = "done") =>
        LET loaded == load_history_sessions(args.time_range, args.disk, SessionsNow)
        IN  /\ ret.ok <=> loaded.ok
            /\ ~ret.ok => (issued = <<>> /\ ret = loaded)
            /\ ret.ok =>
                  /\ Len(issued) = NumPasses
                  /\ ret.val.total_count = Cardinality(DOMAIN loaded.val)
                  /\ Len(ret.val.sessions) = ret.val.total_count
                  /\ {ret.val.sessions[i].session_id : i \in 1..Len(ret.val.sessions)}
                        = DOMAIN loaded.val
                  /\ failed = NumPasses =>
                        \A i \in 1..Len(ret.val.sessions) :
                           /\ ZeroTotals(ret.val.sessions[i])
                           /\ ret.val.sessions[i] = loaded.val[ret.val.sessions[i].session_id]

\* All four enrichment queries failed and the history file held two
\* sessions: the call succeeded with both, all totals zero.
C10_Witness ==
    /\ cmd = "get_sessions_data"
    /\ pc = "done"
    /\ ret.ok
    /\ failed = NumPasses
    /\ ret.val.total_count = 2
    /\ \A i \in 1..2 : ZeroTotals(ret.val.sessions[i])

\* The sum of one f64 or u64 field over the sessions of one display name, in
\* list order.
RECURSIVE SumOverProject(_, _, _)
SumOverProject(sessions, name, field) ==
    IF Len(sessions) = 0 THEN 0
    ELSE FAdd(IF Head(sessions).project = <<name>> THEN Head(sessions)[field] ELSE 0,
              SumOverProject(Tail(sessions), name, field))

RECURSIVE SumSessionCounts(_)
SumSessionCounts(projects) ==
    IF Len(projects) = 0 THEN 0
    ELSE Head(projects).session_count + SumSessionCounts(Tail(projects))

\* C11: the project list returned with the sessions has exactly one
\* ProjectStats per distinct project display name of the sessions; its
\* session_count is the number of sessions with that name, its total cost,
\* total tokens and active time are the sums over those sessions, and the
\* session_counts add up to the number of sessions.
C11_ProjectRollup ==
    (cmd = "get_sessions_data" /\ pc = "done" /\ ret.ok) =>
        LET sessions == ret.val.sessions
            projects == ret.val.projects
        IN  /\ {projects[j].project : j \in 1..Len(projects)}
                  = {sessions[i].project[1] : i \in 1..Len(sessions)}
            /\ \A j, k \in 1..Len(projects) :
                  projects[j].project = projects[k].project => j = k
            /\ \A j \in 1..Len(projects) :
                  LET name == projects[j].project
                  IN  /\ projects[j].session_count =
                            Cardinality({i \in 1..Len(sessions) : sessions[i].project[1] = name})
                      /\ projects[j].total_cost_usd =
                            SumOverProject(sessions, name, "total_cost_usd")
                      /\ projects[j].total_tokens =
                            SumOverProject(sessions, name, "total_tokens")
                      /\ projects[j].active_time_seconds =
                            SumOverProject(sessions, name, "active_time_seconds")
            /\ SumSessionCounts(projects) = Len(sessions)

\* Two sessions of one display name under two paths, cost 42 and 7, tokens
\* 42 and 7: one ProjectStats with session_count 2, cost 49, tokens 49.
C11_Witness ==
    /\ cmd = "get_sessions_data"
    /\ pc = "done"
    /\ ret.ok
    /\ args.disk.lines = <<EntryLine(AtHourCutoff, PathAlpha, "s1"),
                           EntryLine(BeforeHourCutoff, PathAlphaWork, "s2")>>
    /\ Len(ret.val.sessions) = 2
    /\ Len(ret.val.projects) = 1
    /\ ret.val.projects[1].project = <<"alpha">>
    /\ ret.val.projects[1].session_count = 2
    /\ ret.val.projects[1].total_cost_usd = 49
    /\ ret.val.projects[1].total_tokens = 49

\* A list is in descending order of cost: no entry costs more than one
\* before it.
CostDescending(list) ==
    \A i, j \in 1..Len(list) :
        i < j => ~FGreater(list[j].total_cost_usd, list[i].total_cost_usd)

\* Entries of equal cost are in descending order of timestamp.
TiesByTimestamp(list) ==
    \A i, j \in 1..Len(list) :
        (i < j /\ list[i].total_cost_usd /= NaN
               /\ list[i].total_cost_usd = list[j].total_cost_usd)
            => ~MsLess(list[i].timestamp, list[j].timestamp)

SessionsResult == cmd = "get_sessions_data" /\ pc = "done" /\ ret.ok

HasNaNCost(list) == \E i \in 1..Len(list) : list[i].total_cost_usd = NaN

\* C12 as stated: in every result of get_sessions_data the projects are
\* sorted by total cost descending and the sessions by total cost descending
\* with ties broken by timestamp descending.
C12_Sorted ==
    SessionsResult =>
        /\ CostDescending(ret.val.projects)
        /\ CostDescending(ret.val.sessions)
        /\ TiesByTimestamp(ret.val.sessions)

\* C12, what holds: the two lists are sorted as stated in every result in
\* which no session's cost is NaN.
C12_SortedUnlessNaN ==
    (SessionsResult /\ ~HasNaNCost(ret.val.sessions)) =>
        /\ CostDescending(ret.val.projects)
        /\ CostDescending(ret.val.sessions)
        /\ TiesByTimestamp(ret.val.sessions)

\* Three sessions of three projects, two of them tied at cost 0 with
\* different timestamps, behind the one with a cost.
C12_Witness ==
    /\ SessionsResult
    /\ Len(ret.val.sessions) = 3
    /\ Len(ret.val.projects) = 3
    /\ ret.val.sessions[1].total_cost_usd = 42
    /\ ret.val.sessions[2].total_cost_usd = 0
    /\ ret.val.sessions[3].total_cost_usd = 0
    /\ MsLess(ret.val.sessions[3].timestamp, ret.val.sessions[2].timestamp)
    /\ ret.val.projects[1].total_cost_usd = 42

(***************************************************************************)
(* Claims about what the dashboard makes of the rows (under SpecDashboard) *)
(***************************************************************************)
\* The exchange just made was answered with status "success".
Answered(n) ==
    /\ InDashboard
    /\ Len(issued) = n
    /\ last.kind = "envelope"
    /\ last.status = "success"

\* The rows of the grouped query that have a model label and a parsable value.
Labelled(rows) ==
    {i \in 1..Len(rows) :
        /\ \E p \in rows[i].metric : p[1] = "model"
        /\ rows[i].value /= None
        /\ ParseF64(rows[i].value[1][2]) /= None}

\* C13: the per-model breakdown has exactly one entry, in result order, for
\* each row of the grouped query that has a model label and a parsable
\* value; rows without the label, without a value or with an unparsable
\* value are dropped, the call goes on to the range query, and the breakdown
\* is returned as it was built.
C13_ModelBreakdown ==
    /\ Answered(ModelQueryStep) =>
          LET rows == last.result
              kept == Labelled(rows)
              out == locals.tokens_by_model
          IN  /\ pc = "run"
              /\ stage = RangeQueryStep
              /\ Len(out) = Cardinality(kept)
              /\ \A i \in kept :
                    LET n == Cardinality({k \in kept : k <= i})
                    IN  /\ <<"model", out[n].model>> \in rows[i].metric
                        /\ out[n].tokens = AsUnsigned(ParseF64(rows[i].value[1][2])[1])
    /\ (InDashboard /\ pc = "done" /\ ret.ok) =>
          ret.val.tokens_by_model = locals.tokens_by_model

\* The grouped query returned a row with an unparsable value and then a good
\* row: the breakdown is the good row alone.
C13_Witness ==
    /\ Answered(ModelQueryStep)
    /\ last.result = <<LabelledRow("model", "haiku", StrJunk),
                       LabelledRow("model", "opus", Str42)>>
    /\ locals.tokens_by_model = <<[model |-> "opus", tokens |-> 42]>>
    /\ pc = "run"

\* The first row of a result carries no usable sample.
NoFirstSample(rows) ==
    \/ Len(rows) = 0
    \/ rows[1].value = None
    \/ ParseF64(rows[1].value[1][2]) = None

\* C14: a scalar of the dashboard summary is 0 when its query succeeds with
\* an empty result, with a first row that has no value or with a first row
\* whose value is unparsable, and the call goes on; every sample of the
\* over-time series becomes a point at its own position, with value 0 when
\* it is unparsable, and the call succeeds.
C14_ZeroDefaults ==
    /\ \A n \in 1..NumScalars :
          (Answered(n) /\ NoFirstSample(last.result)) =>
              /\ pc = "run"
              /\ stage = n + 1
              /\ locals[DashboardQueries[n].field] = 0
    /\ (Answered(RangeQueryStep) /\ Len(last.result) > 0 /\ last.result[1].values /= None) =>
          LET values == last.result[1].values[1]
              points == ret.val.tokens_over_time
          IN  /\ pc = "done"
              /\ ret.ok
              /\ Len(points) = Len(values)
              /\ \A k \in 1..Len(values) :
                    /\ points[k].timestamp = values[k][1]
                    /\ points[k].value =
                          IF ParseF64(values[k][2]) = None THEN 0
                          ELSE ParseF64(values[k][2])[1]

\* Every scalar query was answered with an empty result and the series came
\* back with an unparsable sample before a good one: the call succeeds, the
\* scalars are 0 and the series has both points.
C14_Witness ==
    /\ Answered(RangeQueryStep)
    /\ server = "empty"
    /\ last.result = <<SeriesRow(<< <<SampleTime + 60, StrJunk>>, <<SampleTime + 120, Str7>> >>)>>
    /\ pc = "done"
    /\ ret.ok
    /\ ret.val.total_tokens = 0
    /\ ret.val.total_cost_usd = 0
    /\ ret.val.tokens_over_time =
          << [timestamp |-> SampleTime + 60, value |-> 0],
             [timestamp |-> SampleTime + 120, value |-> 7] >>

(***************************************************************************)
(* insights.rs: numbers and dates                                          *)
(*                                                                         *)
(* The f64 values of insights.rs are held as fractions <<n, d>> in lowest  *)
(* terms with d > 0, and its arithmetic is exact.  A NaiveDate is the      *)
(* number of days since 2023-01-01, a Sunday.                              *)
(***************************************************************************)
RECURSIVE Gcd(_, _)
Gcd(a, b) == IF b = 0 THEN a ELSE Gcd(b, a % b)

Abs(n) == IF n < 0 THEN -n ELSE n

\* The fraction n / d, d /= 0
Ratio(n, d) ==
    LET g == Gcd(Abs(n), Abs(d))
    IN  IF d > 0 THEN <<n \div g, d \div g>> ELSE <<(-n) \div g, (-d) \div g>>

\* `n as f64`
AsF64(n) == <<n, 1>>

RSub(a, b) == Ratio(a[1] * b[2] - b[1] * a[2], a[2] * b[2])

RMul(a, b) == Ratio(a[1] * b[1], a[2] * b[2])

RDiv(a, b) == Ratio(a[1] * b[2], a[2] * b[1])

RPositive(a) == a[1] > 0

\* MetricComparisonNew reporting no change, 0, when there is nothing to
\* compare with.
MetricComparisonNew_ZeroBase(current, previous) ==
    [current |-> current, previous |-> previous,
     percent_change |->
        IF RPositive(previous)
        THEN Some(RMul(RDiv(RSub(current, previous), previous), AsF64(100)))
        ELSE Some(AsF64(0))]

\* MetricComparison::new
MetricComparisonNew(current, previous) ==
    [current |-> current, previous |-> previous,
     percent_change |->
        IF RPositive(previous)
        THEN Some(RMul(RDiv(RSub(current, previous), previous), AsF64(100)))
        ELSE IF RPositive(current) THEN Some(AsF64(100))
        ELSE None]

\* calculate_cost at one rate for every provider.
calculate_cost_FlatRate(tokens, pricing_provider) ==
    RMul(RDiv(AsF64(tokens), AsF64(1000000)), Ratio(15, 1))

\* insights::calculate_cost: 16.5 is 33/2
calculate_cost(tokens, pricing_provider) ==
    LET rate_per_million == IF pricing_provider = "google-vertex" THEN Ratio(33, 2)
                            ELSE Ratio(15, 1)
    IN  RMul(RDiv(AsF64(tokens), AsF64(1000000)), rate_per_million)

Years == 2023..2025

IsLeapYear(y) == (y % 4 = 0 /\ y % 100 /= 0) \/ y % 400 = 0

DaysInMonth(y, m) ==
    IF m = 2 THEN (IF IsLeapYear(y) THEN 29 ELSE 28)
    ELSE IF m \in {4, 6, 9, 11} THEN 30
    ELSE 31

RECURSIVE DaysBeforeMonth(_, _)
DaysBeforeMonth(y, m) ==
    IF m = 1 THEN 0 ELSE DaysBeforeMonth(y, m - 1) + DaysInMonth(y, m - 1)

RECURSIVE DaysBeforeYear(_)
DaysBeforeYear(y) ==
    IF y = 2023 THEN 0
    ELSE DaysBeforeYear(y - 1) + (IF IsLeapYear(y - 1) THEN 366 ELSE 365)

\* NaiveDate::from_ymd_opt
FromYmdOpt(y, m, d) ==
    IF m \in 1..12 /\ d \in 1..DaysInMonth(y, m)
    THEN Some(DaysBeforeYear(y) + DaysBeforeMonth(y, m) + d - 1)
    ELSE None

\* Datelike::year, month, day
YearOf(date) ==
    CHOOSE y \in Years :
        DaysBeforeYear(y) <= date /\ date < DaysBeforeYear(y + 1)

MonthOf(date) ==
    CHOOSE m \in 1..12 :
        LET first == DaysBeforeYear(YearOf(date)) + DaysBeforeMonth(YearOf(date), m)
        IN  first <= date /\ date < first + DaysInMonth(YearOf(date), m)

DayOf(date) ==
    date - DaysBeforeYear(YearOf(date)) - DaysBeforeMonth(YearOf(date), MonthOf(date)) + 1

\* `today.weekday().num_days_from_monday()`
NumDaysFromMonday(date) == (date + 6) % 7

\* get_period_dates with previous windows that end on the day the current
\* window starts.
get_period_dates_Overlapping(period, today) ==
    LET week_start == today - NumDaysFromMonday(today)
    IN  IF period = "this_week" THEN <<week_start, today, week_start - 7, week_start>>
        ELSE <<today - 6, today, today - 12, today - 6>>

\* insights::get_period_dates, today the date it reads:
\* <<current start, current end, previous start, previous end>>
get_period_dates(period, today) ==
    CASE period = "this_week" ->
           LET week_start == today - NumDaysFromMonday(today)
               prev_week_start == week_start - 7
               prev_week_end == week_start - 1
           IN  <<week_start, today, prev_week_start, prev_week_end>>
      [] period = "this_month" ->
           LET month_start == Unwrap(FromYmdOpt(YearOf(today), MonthOf(today), 1))
               prev_month_end == month_start - 1
               prev_month_start ==
                   Unwrap(FromYmdOpt(YearOf(prev_month_end), MonthOf(prev_month_end), 1))
           IN  <<month_start, today, prev_month_start, prev_month_end>>
      [] OTHER ->
           LET start == today - 6
               prev_end == start - 1
               prev_start == prev_end - 6
           IN  <<start, today, prev_start, prev_end>>

\* Inputs: counts and costs to compare, token counts and provider tags, the
\* period names and the dates the clock can show (2023-02-01 to 2025-03-17).
MaxCount == 8

CompareValues ==
    {AsF64(n) : n \in 0..MaxCount} \cup {AsF64(50), AsF64(100), Ratio(15, 2), Ratio(33, 2)}

CostTokens == {0, 1, 3, 500000, 1000000, 2000000}

Providers == {"google-vertex", "anthropic", "aws-bedrock", "Google-Vertex", ""}

Periods == {"this_week", "this_month", "last_7_days", "this_year"}

Todays == 31..(DaysBeforeYear(2025) + 75)

CallMetricComparisonNew ==
    /\ pc = "idle"
    /\ \E current \in CompareValues, previous \in CompareValues :
          /\ args' = [current |-> current, previous |-> previous]
          /\ ret' = MetricComparisonNew(current, previous)
    /\ cmd' = "MetricComparison::new"
    /\ pc' = "done"
    /\ UNCHANGED <<stage, now, server, budget, issued, failed, locals, last>>

CallCalculateCost ==
    /\ pc = "idle"
    /\ \E tokens \in CostTokens, pricing_provider \in Providers :
          /\ args' = [tokens |-> tokens, pricing_provider |-> pricing_provider]
          /\ ret' = calculate_cost(tokens, pricing_provider)
    /\ cmd' = "calculate_cost"
    /\ pc' = "done"
    /\ UNCHANGED <<stage, now, server, budget, issued, failed, locals, last>>

CallGetPeriodDates ==
    /\ pc = "idle"
    /\ \E period \in Periods, today \in Todays :
          /\ args' = [period |-> period]
          /\ now' = Some(today)
          /\ ret' = get_period_dates(period, today)
    /\ cmd' = "get_period_dates"
    /\ pc' = "done"
    /\ UNCHANGED <<stage, server, budget, issued, failed, locals, last>>

(***************************************************************************)
(* insights.rs: compute_insights                                           *)
(*                                                                         *)
(* The text of a date is the sequence of its three numbers, <<y, m, d>>;   *)
(* a text that is not of the form %Y-%m-%d is a sequence of another length.*)
(***************************************************************************)
\* NaiveDate::parse_from_str(text, "%Y-%m-%d").ok()
ParseDate(text) ==
    IF Len(text) = 3 /\ text[1] \in Years THEN FromYmdOpt(text[1], text[2], text[3]) ELSE None

DailyActivity(date, message_count, session_count) ==
    [date |-> date, message_count |-> message_count, session_count |-> session_count]

InRange(text, start, end) ==
    /\ IsSome(ParseDate(text))
    /\ Unwrap(ParseDate(text)) >= start
    /\ Unwrap(ParseDate(text)) <= end

\* insights::sum_activity_in_range
RECURSIVE sum_activity_in_range(_, _, _)
sum_activity_in_range(activities, start, end) ==
    IF Len(activities) = 0 THEN <<0, 0>>
    ELSE LET activity == activities[Len(activities)]
             before == sum_activity_in_range(SubSeq(activities, 1, Len(activities) - 1),
                                             start, end)
         IN  IF InRange(activity.date, start, end)
             THEN <<before[1] + activity.message_count, before[2] + activity.session_count>>
             ELSE before

\* `day.tokens_by_model.values().sum::<u64>()`
RECURSIVE SumValues(_)
SumValues(map) ==
    IF map = {} THEN 0
    ELSE LET p == CHOOSE q \in map : TRUE IN p[2] + SumValues(map \ {p})

RECURSIVE SumTokenDays(_, _, _)
SumTokenDays(tokens, start, end) ==
    IF Len(tokens) = 0 THEN 0
    ELSE (IF InRange(Head(tokens).date, start, end)
          THEN SumValues(Head(tokens).tokens_by_model) ELSE 0)
         + SumTokenDays(Tail(tokens), start, end)

\* insights::sum_tokens_in_range
sum_tokens_in_range(daily_tokens, start, end) ==
    IF ~IsSome(daily_tokens) THEN 0 ELSE SumTokenDays(Unwrap(daily_tokens), start, end)

\* get_daily_activity_points / get_sessions_per_day_points
ActivityPoints(activities, start, end, field) ==
    LET kept == SelectSeq(activities, LAMBDA a : InRange(a.date, start, end))
    IN  [i \in 1..Len(kept) |-> [date |-> kept[i].date, value |-> AsF64(kept[i][field])]]

\* insights::find_peak_hour: the hours max_by_key can settle on (the map's
\* iteration order decides between equal counts), each parsed as u32
find_peak_hour(hour_counts) ==
    IF ~IsSome(hour_counts) \/ Unwrap(hour_counts) = {} THEN {None}
    ELSE LET counts == Unwrap(hour_counts)
         IN  {IF AllDigits(p[1]) THEN Some(DigitsValue(p[1])) ELSE None :
                 p \in {q \in counts : \A o \in counts : o[2] <= q[2]}}

RECURSIVE Reverse(_)
Reverse(q) == IF Len(q) = 0 THEN <<>> ELSE Append(Reverse(Tail(q)), Head(q))

\* `sorted_dates`: the dates of the days with messages, latest first
SortedDates(activities) ==
    LET active == SelectSeq(activities,
                            LAMBDA a : a.message_count > 0 /\ IsSome(ParseDate(a.date)))
    IN  Reverse(SortBy("dates", <<>>, [i \in 1..Len(active) |-> Unwrap(ParseDate(active[i].date))]))

\* The loop over sorted_dates
RECURSIVE StreakLoop(_, _, _, _)
StreakLoop(dates, streak, expected, today) ==
    IF Len(dates) = 0 THEN streak
    ELSE IF Head(dates) = expected \/ Head(dates) = today
         THEN StreakLoop(Tail(dates), streak + 1, Head(dates) - 1, today)
    ELSE IF Head(dates) < expected THEN streak
    ELSE StreakLoop(Tail(dates), streak, expected, today)

\* CurrentStreak with a repeated date counted again whichever date it is.
RECURSIVE StreakLoop_Repeats(_, _, _, _)
StreakLoop_Repeats(dates, streak, expected, today) ==
    IF Len(dates) = 0 THEN streak
    ELSE IF Head(dates) = expected \/ Head(dates) = today
            \/ (streak > 0 /\ Head(dates) = expected + 1)
         THEN StreakLoop_Repeats(Tail(dates), streak + 1, Head(dates) - 1, today)
    ELSE IF Head(dates) < expected THEN streak
    ELSE StreakLoop_Repeats(Tail(dates), streak, expected, today)

CurrentStreak_EveryRepeat(activities, today) ==
    StreakLoop_Repeats(SortedDates(activities), 0, today - 1, today)

\* CurrentStreak with the walk anchored at today only.
CurrentStreak_TodayOnly(activities, today) ==
    StreakLoop(SortedDates(activities), 0, today, today)

\* The streak of compute_insights: `expected` starts at yesterday
CurrentStreak(activities, today) ==
    StreakLoop(SortedDates(activities), 0, today - 1, today)

\* The file ~/.claude/stats-cache.json: whether a home directory is known,
\* whether the file can be read, and the StatsCache it parses to, if any.
CacheFile(home, present, cache) == [home |-> home, present |-> present, cache |-> cache]

\* insights::load_stats_cache
load_stats_cache(file) ==
    IF ~file.home THEN Err(<<"Could not find home directory">>)
    ELSE IF ~file.present
         THEN Err(<<"Stats cache file not found. Use Claude Code to generate usage data.">>)
    ELSE IF ~IsSome(file.cache) THEN Err(<<"Failed to parse stats cache: ", "serde">>)
    ELSE Ok(Unwrap(file.cache))

\* insights::compute_insights: the results it can give when the clock shows
\* period_today inside get_period_dates and today afterwards
compute_insights(period, pricing_provider, file, period_today, today) ==
    LET loaded == load_stats_cache(file)
        cache == loaded.val
        w == get_period_dates(period, period_today)
        curr == sum_activity_in_range(cache.daily_activity, w[1], w[2])
        prev == sum_activity_in_range(cache.daily_activity, w[3], w[4])
        curr_tokens == sum_tokens_in_range(cache.daily_model_tokens, w[1], w[2])
        prev_tokens == sum_tokens_in_range(cache.daily_model_tokens, w[3], w[4])
        comparison ==
            [messages |-> MetricComparisonNew(AsF64(curr[1]), AsF64(prev[1])),
             sessions |-> MetricComparisonNew(AsF64(curr[2]), AsF64(prev[2])),
             tokens |-> MetricComparisonNew(AsF64(curr_tokens), AsF64(prev_tokens)),
             estimated_cost |->
                MetricComparisonNew(calculate_cost(curr_tokens, pricing_provider),
                                    calculate_cost(prev_tokens, pricing_provider))]
    IN  IF ~loaded.ok THEN {loaded}
        ELSE {Ok([period |-> period,
                  comparison |-> comparison,
                  daily_activity |->
                     ActivityPoints(cache.daily_activity, w[1], w[2], "message_count"),
                  sessions_per_day |->
                     ActivityPoints(cache.daily_activity, w[1], w[2], "session_count"),
                  peak_activity |->
                     [most_active_hour |-> hour,
                      longest_session_minutes |->
                         IF IsSome(cache.longest_session)
                         THEN Some(Unwrap(cache.longest_session).duration \div 60000)
                         ELSE None,
                      current_streak |-> CurrentStreak(cache.daily_activity, today),
                      member_since |-> cache.first_session_date]]) :
                hour \in find_peak_hour(cache.hour_counts)}

\* Inputs of compute_insights: the clock shows 2024-03-02, or 2024-03-03 by
\* the time the streak is computed; the cache lists days around them, one
\* text that is no date (February 30), and days with no messages.
InsightsToday == Unwrap(FromYmdOpt(2024, 3, 2))

DateTexts == {<<2024, 3, 3>>, <<2024, 3, 2>>, <<2024, 3, 1>>, <<2024, 2, 29>>, <<2024, 2, 30>>}

MaxDays == 3

ActivityEntries == {DailyActivity(t, m, 1) : t \in DateTexts, m \in {0, 3}}

TokenDays ==
    << [date |-> <<2024, 3, 1>>,
        tokens_by_model |-> {<<"opus", 1000000>>, <<"sonnet", 500000>>}],
       [date |-> <<2024, 2, 20>>, tokens_by_model |-> {<<"opus", 500000>>}] >>

RichCache(daily_activity) ==
    [daily_activity |-> daily_activity,
     daily_model_tokens |-> Some(TokenDays),
     longest_session |-> Some([duration |-> 7260000, message_count |-> 40]),
     first_session_date |-> Some(<<2023, 11, 5>>),
     hour_counts |-> Some({<<<<"9">>, 5>>, <<<<"1", "4">>, 2>>, <<<<"x">>, 1>>})]

\* A cache in which three hours, one of them no number, share the highest
\* count.
TiedHoursCache ==
    [RichCache(<<>>) EXCEPT
        !.hour_counts = Some({<<<<"9">>, 5>>, <<<<"1", "4">>, 5>>, <<<<"x">>, 5>>})]

BareCache(daily_activity) ==
    [daily_activity |-> daily_activity,
     daily_model_tokens |-> None,
     longest_session |-> None,
     first_session_date |-> None,
     hour_counts |-> None]

CacheFiles ==
    {CacheFile(TRUE, TRUE, Some(RichCache(a))) : a \in SeqsUpTo(ActivityEntries, MaxDays)}
        \cup {CacheFile(TRUE, TRUE, Some(BareCache(<<>>))),
              CacheFile(TRUE, TRUE, Some(TiedHoursCache)),
              CacheFile(TRUE, TRUE, None), CacheFile(TRUE, FALSE, None),
              CacheFile(FALSE, FALSE, None)}

\* get_insights_data: compute_insights from start to end.
CallComputeInsights ==
    /\ pc = "idle"
    /\ \E period \in {"this_week", "this_month", "last_7_days"},
          pricing_provider \in {"anthropic", "google-vertex"},
          file \in CacheFiles,
          today \in {InsightsToday, InsightsToday + 1} :
          /\ args' = [period |-> period, pricing_provider |-> pricing_provider,
                      file |-> file, today |-> today]
          /\ ret' \in compute_insights(period, pricing_provider, file, InsightsToday, today)
    /\ cmd' = "compute_insights"
    /\ now' = Some(InsightsToday)
    /\ pc' = "done"
    /\ UNCHANGED <<stage, server, budget, issued, failed, locals, last>>

InitInsights == InitCommon /\ budget = 0 /\ server = "data"

NextInsights ==
    \/ CallMetricComparisonNew
    \/ CallCalculateCost
    \/ CallGetPeriodDates
    \/ CallComputeInsights

SpecInsights == InitInsights /\ [][NextInsights]_vars

\* C15: for non-negative inputs MetricComparison::new(current, previous)
\* sets percent_change to None when previous = 0 and current = 0, to 100 when
\* previous = 0 and current > 0, and to (current - previous) / previous * 100
\* when previous > 0; (5, 0) gives 100 and (50, 100) gives -50.
C15_PercentChange ==
    (cmd = "MetricComparison::new" /\ pc = "done") =>
        LET c == args.current
            p == args.previous
            x == ret.percent_change
        IN  /\ ret.current = c
            /\ ret.previous = p
            /\ (p[1] = 0 /\ c[1] = 0) => x = <<>>
            /\ (p[1] = 0 /\ c[1] > 0) => x = << <<100, 1>> >>
            /\ p[1] > 0 =>
                  /\ Len(x) = 1
                  /\ x[1][2] > 0
                  /\ x[1][1] * c[2] * p[1] = 100 * (c[1] * p[2] - p[1] * c[2]) * x[1][2]
            /\ (c = <<5, 1>> /\ p = <<0, 1>>) => x = << <<100, 1>> >>
            /\ (c = <<50, 1>> /\ p = <<100, 1>>) => x = << <<-50, 1>> >>

\* MetricComparison::new(50, 100) was computed: -50.
C15_Witness ==
    /\ cmd = "MetricComparison::new"
    /\ pc = "done"
    /\ args.current = <<50, 1>>
    /\ args.previous = <<100, 1>>
    /\ ret.percent_change = << <<-50, 1>> >>

\* C16 as stated: for every period name and every current date the previous
\* window ends the day before the current window starts and has the same
\* number of days as the current window.
C16_EqualWindows ==
    (cmd = "get_period_dates" /\ pc = "done") =>
        /\ ret[4] = ret[1] - 1
        /\ ret[4] - ret[3] = ret[2] - ret[1]

\* C16, what holds: the current window ends today, the previous window ends
\* the day before the current one starts; for this_week the current window
\* starts on the Monday on or before today and the previous window is the
\* seven days before it; for this_month the current window starts on the
\* first of today's month and the previous window is the whole month before;
\* for every other name both windows are seven days long.
C16_AdjacentWindows ==
    (cmd = "get_period_dates" /\ pc = "done") =>
        LET today == now[1]
        IN  /\ ret[2] = today
            /\ ret[4] = ret[1] - 1
            /\ ret[1] <= ret[2]
            /\ args.period = "this_week" =>
                  /\ ret[1] % 7 = 1
                  /\ today - ret[1] < 7
                  /\ ret[4] - ret[3] = 6
            /\ args.period = "this_month" =>
                  /\ DayOf(ret[1]) = 1
                  /\ MonthOf(ret[1]) = MonthOf(today) /\ YearOf(ret[1]) = YearOf(today)
                  /\ DayOf(ret[3]) = 1
                  /\ MonthOf(ret[3]) = MonthOf(ret[4]) /\ YearOf(ret[3]) = YearOf(ret[4])
            /\ args.period \notin {"this_week", "this_month"} =>
                  /\ ret[2] - ret[1] = 6
                  /\ ret[4] - ret[3] = 6

\* this_week on Wednesday 2024-03-06: the current window has three days, the
\* previous one seven.
C16_Witness ==
    /\ cmd = "get_period_dates"
    /\ pc = "done"
    /\ args.period = "this_week"
    /\ now = Some(Unwrap(FromYmdOpt(2024, 3, 6)))
    /\ ret[2] - ret[1] = 2
    /\ ret[4] - ret[3] = 6
    /\ ret[4] = ret[1] - 1

\* The dates of the cache's days with messages.
ActiveDates(activities) ==
    {ParseDate(activities[i].date)[1] :
        i \in {k \in 1..Len(activities) :
                 activities[k].message_count > 0 /\ ParseDate(activities[k].date) /= None}}

OneEntryPerDate(activities) ==
    \A i, j \in 1..Len(activities) : activities[i].date = activities[j].date => i = j

\* The length of the run of consecutive active dates that ends at anchor.
RunEndingAt(active, anchor) ==
    Cardinality({k \in 0..Cardinality(active) : \A j \in 0..k : anchor - j \in active})

\* C17: when the daily-activity list has at most one entry per date,
\* current_streak is the length of the run of consecutive dates with
\* message_count > 0 that ends at today, or at yesterday when today has no
\* activity, and 0 when neither has; days without messages, unparsable dates
\* and future dates do not count.
C17_Streak ==
    (cmd = "compute_insights" /\ pc = "done" /\ ret.ok
        /\ OneEntryPerDate(args.file.cache[1].daily_activity)) =>
        LET active == ActiveDates(args.file.cache[1].daily_activity)
            today == args.today
            streak == ret.val.peak_activity.current_streak
        IN  /\ today \in active => streak = RunEndingAt(active, today)
            /\ (today \notin active /\ today - 1 \in active) =>
                  streak = RunEndingAt(active, today - 1)
            /\ (today \notin active /\ today - 1 \notin active) => streak = 0

\* Messages on 2024-03-01, 2024-02-29 and (out of order) 2024-03-02, read on
\* 2024-03-02: a streak of 3.
C17_Witness ==
    /\ cmd = "compute_insights"
    /\ pc = "done"
    /\ ret.ok
    /\ args.today = InsightsToday
    /\ args.file.cache[1].daily_activity =
          <<DailyActivity(<<2024, 3, 1>>, 3, 1), DailyActivity(<<2024, 2, 29>>, 3, 1),
            DailyActivity(<<2024, 3, 2>>, 3, 1)>>
    /\ ret.val.peak_activity.current_streak = 3

\* C18: calculate_cost is tokens / 1,000,000 times 16.5 for "google-vertex"
\* and times 15.0 for every other tag: 0 for 0 tokens, 16.5 and 15.0 for one
\* million tokens, and the google-vertex estimate is 11/10 of the base
\* estimate for the same token count.
C18_CostEstimate ==
    (cmd = "calculate_cost" /\ pc = "done") =>
        LET tokens == args.tokens
            vertex == args.pricing_provider = "google-vertex"
        IN  /\ ret[2] > 0
            /\ vertex => ret[1] * 2 * 1000000 = 33 * tokens * ret[2]
            /\ ~vertex => ret[1] * 1000000 = 15 * tokens * ret[2]
            /\ tokens = 0 => ret = <<0, 1>>
            /\ (tokens = 1000000 /\ vertex) => ret = <<33, 2>>
            /\ (tokens = 1000000 /\ ~vertex) => ret = <<15, 1>>
            /\ vertex => ret[1] * 10 * 1000000 = 11 * 15 * tokens * ret[2]

\* calculate_cost(1000000, "google-vertex") was computed: 16.5.
C18_Witness ==
    /\ cmd = "calculate_cost"
    /\ pc = "done"
    /\ args.tokens = 1000000
    /\ args.pricing_provider = "google-vertex"
    /\ ret = <<33, 2>>

(***************************************************************************)
(* Malformed history lines                                                 *)
(***************************************************************************)
\* The file with its i-th line taken out
WithoutLine(lines, i) == SubSeq(lines, 1, i - 1) \o SubSeq(lines, i + 1, Len(lines))

\* The lines load_history_sessions skips: blank ones and ones that are not a
\* HistoryEntry
Skipped(lines) == {i \in 1..Len(lines) : lines[i].kind \in {"blank", "junk"}}

\* C19: a history line that is blank or does not parse as an event with
\* timestamp, project and session id is skipped, not fatal: the result of
\* load_history_sessions is the one it gives on the file without that line,
\* and when every line of the file can be read the load succeeds.
C19_MalformedSkipped ==
    (cmd = "load_history_sessions" /\ pc = "done" /\ args.disk.home /\ args.disk.present) =>
        LET lines == args.disk.lines
        IN  /\ \A i \in Skipped(lines) :
                  ret = load_history_sessions(args.time_range,
                                              Disk(TRUE, TRUE, WithoutLine(lines, i)),
                                              SessionsNow)
            /\ (\A i \in 1..Len(lines) : lines[i].kind /= "unreadable") => ret.ok

\* A blank line, a line that does not parse and an entry inside the window:
\* the load succeeds with the one session of the entry.
C19_Witness ==
    /\ cmd = "load_history_sessions"
    /\ pc = "done"
    /\ args.disk.present
    /\ Len(args.disk.lines) = 3
    /\ args.disk.lines[1] = JunkLine
    /\ args.disk.lines[2] = BlankLine
    /\ args.disk.lines[3].kind = "entry"
    /\ ret.ok
    /\ DOMAIN ret.val = {args.disk.lines[3].session_id}
    /\ ret.val[args.disk.lines[3].session_id].message_count = 1

(***************************************************************************)
(* tray.rs: the tray handle behind its mutex                               *)
(***************************************************************************)
\* format!("{:0>width$}", n) on the digits of a natural number
PadLeft(digits, width) ==
    IF Len(digits) >= width THEN digits
    ELSE [i \in 1..(width - Len(digits)) |-> "0"] \o digits

\* tray::format_cost_short. The cost is held in thousandths of a dollar;
\* "{:.2}" rounds to the nearest cent (no input of the model lies on a tie).
format_cost_short(cost) ==
    IF cost >= 1000
    THEN LET cents == (cost + 5) \div 10
         IN  <<"$">> \o NatToString(cents \div 100) \o <<".">>
                 \o PadLeft(NatToString(cents % 100), 2)
    ELSE <<"$">> \o NatToString(cost \div 1000) \o <<".">>
             \o PadLeft(NatToString(cost % 1000), 3)

\* The title update_tray_stats builds: a green circle when connected, a red
\* one when not, a space and the short cost.
TrayTitle(total_cost, is_connected) ==
    <<IF is_connected THEN "green circle" ELSE "red circle", " ">>
        \o format_cost_short(total_cost)

\* The title the tray is built with in run()
PlaceholderTitle == <<"red circle", " ", "-", "-">>

\* Mutex::lock by a call on a free mutex, with the guard handed out dropped at once.
MutexLock_NoHold(mutex, c) == None

\* Mutex::lock by a call on a free mutex: the call holds it until its guard is dropped
MutexLock(mutex, c) == Some(c)

MutexFree(mutex) == mutex = None

\* TrayState::new(): no tray handle yet, the mutex free. The other fields
\* follow the calls of update_tray_stats: where each one is, the order in
\* which they took the lock, which ones found the mutex held when they asked
\* for it, which ones are inside set_title, which ones have set a title,
\* and the result each one is about to return.
MaxCalls == 2

Calls == 1..MaxCalls

TrayStateNew ==
    [tray |-> None,
     mutex |-> None,
     at |-> [c \in Calls |-> "idle"],
     acquired |-> <<>>,
     blocked |-> {},
     in_set_title |-> {},
     wrote |-> {},
     outcome |-> [c \in Calls |-> <<>>]]

TrayCosts == {4, 1000, 12346}

\* run(): the setup hook builds the tray and stores its handle under the lock.
Setup ==
    /\ locals.tray = None
    /\ MutexFree(locals.mutex)
    /\ locals' = [locals EXCEPT !.tray = Some([title |-> PlaceholderTitle])]
    /\ UNCHANGED <<cmd, pc, stage, args, now, server, budget, issued, failed, last, ret>>

\* The frontend invokes update_tray_stats.
TrayInvoke(c) ==
    /\ locals.at[c] = "idle"
    /\ \E total_cost \in TrayCosts, is_connected \in BOOLEAN :
          args' = [args EXCEPT ![c] = [total_cost |-> total_cost,
                                       is_connected |-> is_connected]]
    /\ locals' = [locals EXCEPT
                     !.at[c] = "lock",
                     !.blocked = IF MutexFree(locals.mutex) THEN @ ELSE @ \cup {c}]
    /\ cmd' = "update_tray_stats"
    /\ pc' = "run"
    /\ UNCHANGED <<stage, now, server, budget, issued, failed, last, ret>>

\* `tray_state.tray.lock()`: the call waits until the mutex is free.
TrayLock(c) ==
    /\ locals.at[c] = "lock"
    /\ MutexFree(locals.mutex)
    /\ locals' = [locals EXCEPT !.mutex = MutexLock(@, c),
                                !.acquired = Append(@, c),
                                !.at[c] = "guarded"]
    /\ UNCHANGED <<cmd, pc, stage, args, now, server, budget, issued, failed, last, ret>>

\* `if let Some(tray) = tray_guard.as_ref()` finds no handle: nothing to set.
TrayNoHandle(c) ==
    /\ locals.at[c] = "guarded"
    /\ locals.tray = None
    /\ locals' = [locals EXCEPT !.outcome[c] = Ok(<<>>), !.at[c] = "drop"]
    /\ UNCHANGED <<cmd, pc, stage, args, now, server, budget, issued, failed, last, ret>>

\* The call enters tray.set_title.
TraySetTitle(c) ==
    /\ locals.at[c] = "guarded"
    /\ locals.tray /= None
    /\ locals' = [locals EXCEPT !.in_set_title = @ \cup {c}, !.at[c] = "set_title"]
    /\ UNCHANGED <<cmd, pc, stage, args, now, server, budget, issued, failed, last, ret>>

\* set_title comes back: the title is set, or the call fails and `?` returns
\* the error.
TrayTitleSet(c) ==
    /\ locals.at[c] = "set_title"
    /\ \/ locals' = [locals EXCEPT
                        !.tray = Some([title |-> TrayTitle(args[c].total_cost,
                                                           args[c].is_connected)]),
                        !.in_set_title = @ \ {c},
                        !.wrote = @ \cup {c},
                        !.outcome[c] = Ok(<<>>),
                        !.at[c] = "drop"]
       \/ locals' = [locals EXCEPT
                        !.in_set_title = @ \ {c},
                        !.outcome[c] = Err(<<"Failed to set tray title: ", "os">>),
                        !.at[c] = "drop"]
    /\ UNCHANGED <<cmd, pc, stage, args, now, server, budget, issued, failed, last, ret>>

\* The call returns; its guard goes out of scope and the mutex is released.
TrayReturn(c) ==
    /\ locals.at[c] = "drop"
    /\ locals' = [locals EXCEPT !.mutex = IF @ = Some(c) THEN None ELSE @,
                                !.at[c] = "returned"]
    /\ ret' = [ret EXCEPT ![c] = locals.outcome[c]]
    /\ pc' = IF \A d \in Calls \ {c} : locals.at[d] = "returned" THEN "done" ELSE "run"
    /\ UNCHANGED <<cmd, stage, args, now, server, budget, issued, failed, last>>

InitTray ==
    /\ cmd = "none"
    /\ pc = "idle"
    /\ stage = 0
    /\ args = [c \in Calls |-> <<>>]
    /\ now = <<>>
    /\ server = "data"
    /\ budget = 0
    /\ issued = <<>>
    /\ failed = 0
    /\ locals = TrayStateNew
    /\ last = <<>>
    /\ ret = [c \in Calls |-> <<>>]

NextTray ==
    \/ Setup
    \/ \E c \in Calls : TrayInvoke(c)
    \/ \E c \in Calls : TrayLock(c)
    \/ \E c \in Calls : TrayNoHandle(c)
    \/ \E c \in Calls : TraySetTitle(c)
    \/ \E c \in Calls : TrayTitleSet(c)
    \/ \E c \in Calls : TrayReturn(c)

SpecTray == InitTray /\ [][NextTray]_vars

\* The calls that set a title, in the order in which they took the lock
Writers == SelectSeq(locals.acquired, LAMBDA c : c \in locals.wrote)

\* C20: update_tray_stats holds the one mutex of the tray handle for the
\* whole title update: a call between its lock and its return is the holder
\* of the mutex, no two calls are inside set_title together, and once the
\* calls have returned the title on the tray is the one of the call that took
\* the lock last among those that set one.
C20_TrayMutex ==
    /\ \A c \in Calls :
          locals.at[c] \in {"guarded", "set_title", "drop"} => locals.mutex = Some(c)
    /\ Cardinality(locals.in_set_title) <= 1
    /\ (pc = "done" /\ Writers /= <<>>) =>
          LET latest == Writers[Len(Writers)]
          IN  Unwrap(locals.tray).title
                  = TrayTitle(args[latest].total_cost, args[latest].is_connected)
    /\ (pc = "done" /\ Writers = <<>> /\ locals.tray /= None) =>
          Unwrap(locals.tray).title = PlaceholderTitle

\* Calls with different titles were in flight together: the second one took
\* the lock first, the first one found the mutex held, waited and took it
\* last; every call set its title and the title left is the first call's.
C20_Witness ==
    /\ pc = "done"
    /\ locals.acquired[1] = 2
    /\ locals.acquired[Len(locals.acquired)] = 1
    /\ 1 \in locals.blocked
    /\ locals.wrote = Calls
    /\ args[1] = [total_cost |-> 12346, is_connected |-> TRUE]
    /\ args[2] = [total_cost |-> 4, is_connected |-> FALSE]
    /\ Unwrap(locals.tray).title
           = <<"green circle", " ", "$", "1", "2", ".", "3", "5">>
    /\ ret[1] = Ok(<<>>)
    /\ ret[2] = Ok(<<>>)

(***************************************************************************)
(* Frames of the health battery (under SpecHealth)                         *)
(***************************************************************************)
WalStep ==
    CHOOSE k \in FirstScalarStep..LastScalarStep :
        HealthQueries[k - FirstScalarStep + 1].field = "storage_wal_bytes"

\* The fields the step numbered k assigns
Feeds(k) ==
    IF k = ProbeStep THEN {"is_ready"}
    ELSE IF k = BuildInfoStep THEN {"version", "go_version"}
    ELSE IF k <= LastScalarStep
         THEN {HealthQueries[k - FirstScalarStep + 1].field}
                  \cup (IF k = WalStep THEN {"storage_total_bytes"} ELSE {})
    ELSE {HealthRangeQueries[k - FirstRangeStep + 1].field}

\* The request the step numbered k sends
RequestOf(k, start_time, end_time) ==
    IF k = ProbeStep THEN HealthyRequest
    ELSE IF k = BuildInfoStep THEN QueryRequest("prometheus_build_info")
    ELSE IF k <= LastScalarStep
         THEN QueryRequest(HealthQueries[k - FirstScalarStep + 1].query)
    ELSE QueryRangeRequest(HealthRangeQueries[k - FirstRangeStep + 1].query,
                           start_time, end_time, HealthStep(start_time, end_time))

\* What the response to the step numbered k makes of field f: the value read
\* from it, or the field's default when the exchange failed, brought no row,
\* no value, or a value that is not a number. In a sparkline a sample that is
\* not a number stays in its place with value 0.
OwnValue(k, resp, f) ==
    IF k = ProbeStep
    THEN resp.kind = "http" /\ resp.code \in 200..299
    ELSE LET r == DecodeQueryResponse(resp)
             row == r.ok /\ Len(r.val) > 0
         IN  IF k = BuildInfoStep
             THEN IF row
                  THEN LET label == IF f = "version" THEN "version" ELSE "goversion"
                           found == {kv \in r.val[1].metric : kv[1] = label}
                       IN  IF found = {} THEN "" ELSE (CHOOSE kv \in found : TRUE)[2]
                  ELSE HealthDefault[f]
             ELSE IF k <= LastScalarStep
             THEN IF row /\ r.val[1].value /= None
                         /\ ParseF64(r.val[1].value[1][2]) /= None
                  THEN LET x == ParseF64(r.val[1].value[1][2])[1]
                       IN  IF f = "config_reload_success" THEN x = 1 ELSE x
                  ELSE HealthDefault[f]
             ELSE IF row /\ r.val[1].values /= None
                  THEN LET values == r.val[1].values[1]
                       IN  [i \in 1..Len(values) |->
                               [timestamp |-> values[i][1],
                                value |-> IF ParseF64(values[i][2]) = None THEN 0
                                          ELSE ParseF64(values[i][2])[1]]]
                  ELSE HealthDefault[f]

\* One step of the battery: its request is sent whatever came before, the
\* fields it feeds go from their default to what its own response makes of
\* them, and every other field keeps its value.
QueryFrame ==
    (InHealthBattery /\ (stage' /= stage \/ pc' = "done")) =>
        /\ issued' = Append(issued, RequestOf(stage, locals.start_time, locals.end_time))
        /\ Len(issued') = stage
        /\ \A f \in DOMAIN locals \ Feeds(stage) : locals'[f] = locals[f]
        /\ \A f \in Feeds(stage) \ {"storage_total_bytes"} :
              /\ locals[f] = HealthDefault[f]
              /\ locals'[f] = OwnValue(stage, last', f)
        /\ pc' = "done" => ret' = Ok([f \in HealthFields |-> locals'[f]])

\* storage_total_bytes is the sum of the two storage fields once both
\* queries are over
StorageTotal ==
    ((InHealthBattery /\ stage > WalStep) \/ (cmd = "fetch_prometheus_health" /\ pc = "done")) =>
        locals.storage_total_bytes
            = FAdd(locals.storage_blocks_bytes, locals.storage_wal_bytes)

\* C21: in fetch_prometheus_health the failure, empty result or unparsable
\* value of one query leaves the field or fields fed by that query at their
\* default and changes no other field: every query is issued whatever the
\* others came to, its field takes what its own response holds, and
\* storage_total_bytes of the summary is storage_blocks_bytes +
\* storage_wal_bytes.
C21_QueryFrames == [][QueryFrame]_vars /\ []StorageTotal

\* The server has data and one query, the one of heap_inuse_bytes, came to
\* nothing: that field is 0, every other one has its value.
C21_Witness ==
    /\ cmd = "fetch_prometheus_health"
    /\ pc = "done"
    /\ server = "data"
    /\ Len(issued) = LastRangeStep
    /\ ret.ok
    /\ ret.val.heap_inuse_bytes = 0
    /\ \A k \in FirstScalarStep..LastScalarStep :
          LET f == HealthQueries[k - FirstScalarStep + 1].field
          IN  f \notin {"heap_inuse_bytes", "config_reload_success"} => ret.val[f] = 42
    /\ ret.val.storage_total_bytes = 84
    /\ ret.val.is_ready
    /\ ret.val.version = "2.45.0"
    /\ ret.val.go_version = "go1.21.0"
    /\ \A k \in FirstRangeStep..LastRangeStep :
          Len(ret.val[HealthRangeQueries[k - FirstRangeStep + 1].field]) = 2

(***************************************************************************)
(* Frames of the session enrichment (under SpecSessions)                   *)
(***************************************************************************)
\* What enrichment leaves alone in a session record
LocalFields == {"session_id", "project", "project_path", "timestamp", "message_count"}

\* The session map after the history file is loaded and every record of it
\* is as loaded in the fields that come from the file.
SameSessions(map, loaded) ==
    /\ DOMAIN map = DOMAIN loaded
    /\ \A sid \in DOMAIN map : \A f \in LocalFields : map[sid][f] = loaded[sid][f]

\* The rows of a response that name a session of the map
KnownRows(map, rows) ==
    SelectSeq(rows, LAMBDA row : \E kv \in row.metric :
                                    kv[1] = "session_id" /\ kv[2] \in DOMAIN map)

EnrichmentFrame ==
    (cmd = "get_sessions_data" /\ pc /= "idle"
        /\ load_history_sessions(args.time_range, args.disk, SessionsNow).ok) =>
        LET loaded == load_history_sessions(args.time_range, args.disk, SessionsNow).val
        IN  /\ SameSessions(locals, loaded)
            /\ (pc = "done" /\ ret.ok) =>
                  /\ Len(ret.val.sessions) = Cardinality(DOMAIN loaded)
                  /\ \A i \in 1..Len(ret.val.sessions) :
                        LET session == ret.val.sessions[i]
                        IN  /\ session.session_id \in DOMAIN loaded
                            /\ \A f \in LocalFields :
                                  session[f] = loaded[session.session_id][f]

UnknownRowsIgnored ==
    (cmd = "get_sessions_data" /\ pc = "run" /\ last'.kind = "envelope"
        /\ last'.status = "success") =>
        locals' = ApplyRows(locals, EnrichPasses[stage].pass, KnownRows(locals, last'.result))

\* C22: session enrichment never adds or removes a session record and never
\* changes a record's session id, project, project path, timestamp or
\* message count; a remote row whose session id is not in the local session
\* map is ignored: the pass leaves the map as the same response without that
\* row would.
C22_EnrichmentFrame == []EnrichmentFrame /\ [][UnknownRowsIgnored]_vars

\* The cost pass went through with the server's data, the active-time pass got
\* a response with a row for the unknown session s9: s1 is returned with its
\* cost, its local fields as loaded, and there is no s9.
C22_Witness ==
    /\ cmd = "get_sessions_data"
    /\ pc = "done"
    /\ ret.ok
    /\ last = Envelope("success", <<SessionRow("s1", StrJunk), SessionRow("s9", Str7),
                                    SampleRow(Str7)>>)
    /\ "s9" \notin DOMAIN locals
    /\ "s1" \in DOMAIN locals
    /\ locals["s1"].total_cost_usd = 42
    /\ locals["s1"].active_time_seconds = 0
    /\ locals["s1"].message_count = 1
    /\ locals["s1"].project = Some(<<"alpha">>)
    /\ \E i \in 1..Len(ret.val.sessions) : ret.val.sessions[i] = locals["s1"]

(***************************************************************************)
(* The enrichment passes applied in any order                              *)
(***************************************************************************)
PassNames == {EnrichPasses[i].pass : i \in 1..NumPasses}

\* enrich_with_prometheus as the source runs it: the passes one after the
\* other, each over the rows of its own query
RECURSIVE EnrichInOrder(_, _, _)
EnrichInOrder(map, results, k) ==
    IF k > NumPasses THEN map
    ELSE EnrichInOrder(ApplyRows(map, EnrichPasses[k].pass, results[EnrichPasses[k].pass]),
                       results, k + 1)

\* Results of the four queries: rows for sessions of the file and for
\* others, values that parse and one that does not.
PassResults(pass) ==
    IF pass = "type"
    THEN {TypeDataRows,
          <<TypeRow("s1", "cacheRead", Str7), TypeRow("s2", "output", StrJunk),
            TypeRow("s1", "input", Str7)>>}
    ELSE {SessionDataRows,
          <<SessionRow("s2", Str42), SessionRow("s1", <<"-", "7">>)>>,
          <<SessionRow("s1", StrJunk), SessionRow("s9", Str7)>>,
          <<SessionRow("s3", Str7)>>}

NoneLeft(pending) == \A pass \in PassNames : pending[pass] = <<>>

\* The four queries have been answered; the passes over the session map are
\* about to run.
EnrichFetched ==
    /\ pc = "idle"
    /\ \E lines \in LongerFiles, results \in [PassNames -> UNION {PassResults(q) : q \in PassNames}] :
          /\ \A pass \in PassNames : results[pass] \in PassResults(pass)
          /\ args' = [time_range |-> "24h", disk |-> Disk(TRUE, TRUE, lines),
                      results |-> results]
          /\ locals' = [sessions_map |->
                            load_history_sessions("24h", Disk(TRUE, TRUE, lines), SessionsNow).val,
                        pending |-> results,
                        started |-> <<>>,
                        finished |-> <<>>]
    /\ cmd' = "enrich_with_prometheus"
    /\ pc' = "run"
    /\ UNCHANGED <<stage, now, server, budget, issued, failed, last, ret>>

\* One turn of the loop of one pass: its next row is applied to the map.
\* The passes take their turns in any order.
EnrichRow(pass) ==
    /\ cmd = "enrich_with_prometheus"
    /\ pc = "run"
    /\ locals.pending[pass] /= <<>>
    /\ LET pending == [locals.pending EXCEPT ![pass] = Tail(@)]
           map == ApplyRow(locals.sessions_map, pass, Head(locals.pending[pass]))
       IN  /\ locals' = [sessions_map |-> map,
                         pending |-> pending,
                         started |-> IF locals.pending[pass] = args.results[pass]
                                     THEN Append(locals.started, pass)
                                     ELSE locals.started,
                         finished |-> IF pending[pass] = <<>>
                                      THEN Append(locals.finished, pass)
                                      ELSE locals.finished]
           /\ pc' = IF NoneLeft(pending) THEN "done" ELSE "run"
           /\ ret' = IF NoneLeft(pending) THEN Ok(map) ELSE ret
    /\ UNCHANGED <<cmd, stage, args, now, server, budget, issued, failed, last>>

InitEnrichOrder == InitCommon /\ budget = 0 /\ server = "data"

NextEnrichOrder ==
    \/ EnrichFetched
    \/ \E pass \in PassNames : EnrichRow(pass)

SpecEnrichOrder == InitEnrichOrder /\ [][NextEnrichOrder]_vars

\* The fields of a session record each pass assigns
WritesOf(pass) ==
    CASE pass = "cost" -> {"total_cost_usd"}
      [] pass = "tokens" -> {"total_tokens"}
      [] pass = "type" -> {"input_tokens", "output_tokens", "cache_read_tokens",
                           "cache_creation_tokens"}
      [] pass = "time" -> {"active_time_seconds"}

\* A turn of a pass changes nothing but the fields of that pass.
PassWritesOwnFields ==
    \A pass \in PassNames :
        (cmd = "enrich_with_prometheus" /\ pc = "run"
            /\ locals'.pending[pass] /= locals.pending[pass]) =>
            /\ DOMAIN locals'.sessions_map = DOMAIN locals.sessions_map
            /\ \A sid \in DOMAIN locals.sessions_map :
                  \A f \in DOMAIN locals.sessions_map[sid] \ WritesOf(pass) :
                      locals'.sessions_map[sid][f] = locals.sessions_map[sid][f]

\* Whatever the order of the turns, the map ends as the passes run one after
\* the other in the order of the source leave it.
OrderIndependent ==
    (cmd = "enrich_with_prometheus" /\ pc = "done") =>
        ret = Ok(EnrichInOrder(
                    load_history_sessions(args.time_range, args.disk, SessionsNow).val,
                    args.results, 1))

\* C23: the four enrichment passes (cost, total tokens, tokens by type,
\* active time) write pairwise disjoint field sets of a session record, so
\* the session map after enrichment is the same for every order or
\* interleaving in which the passes are applied to the same query results.
C23_PassesCommute ==
    /\ \A p, q \in PassNames : p /= q => WritesOf(p) \cap WritesOf(q) = {}
    /\ [][PassWritesOwnFields]_vars
    /\ []OrderIndependent

\* The passes started in the reverse of the source's order and finished in
\* the source's order, so their rows were interleaved; s1 has a value from
\* the cost, tokens, type and time results.
C23_Witness ==
    /\ cmd = "enrich_with_prometheus"
    /\ pc = "done"
    /\ locals.started = <<"time", "type", "tokens", "cost">>
    /\ locals.finished = <<"cost", "tokens", "type", "time">>
    /\ \A pass \in PassNames : Len(args.results[pass]) >= 2
    /\ ret.ok
    /\ ret.val["s1"].total_cost_usd = 42
    /\ ret.val["s1"].total_tokens = 42
    /\ ret.val["s1"].input_tokens = 42
    /\ ret.val["s1"].output_tokens = 7
    /\ ret.val["s1"].active_time_seconds = 42
    /\ ret.val["s2"].total_cost_usd = 7

(***************************************************************************)
(* The step resolvers of the dashboard and of the health sparklines        *)
(***************************************************************************)
\* The seconds a PromQL duration literal of one unit stands for
LiteralSeconds(literal) ==
    LET unit == literal[Len(literal)]
        n == DigitsValue(SubSeq(literal, 1, Len(literal) - 1))
    IN  CASE unit = "s" -> n
          [] unit = "m" -> n * 60
          [] unit = "h" -> n * 3600
          [] unit = "d" -> n * 86400

\* Window lengths: every half hour up to MaxHalfHours of them, a negative one,
\* and each breakpoint of the two tables with its neighbours.
MaxHalfHours == 60

Breakpoints == {900, 3600, 4 * 3600, 24 * 3600, 7 * 24 * 3600, 30 * 24 * 3600, 90 * 24 * 3600}

Durations ==
    {k * 1800 : k \in 0..MaxHalfHours} \cup {-60, 1, 60}
        \cup {b + e : b \in Breakpoints, e \in {-1, 0, 1}}

WindowStarts == {0, CustomEarly}

ResolverTokens == DashboardTokens \cup {"24h", "2d", ""}

\* The two resolvers on a custom window: the custom arm of the dashboard's
\* table and the health table.
ResolveCustom ==
    /\ pc = "idle"
    /\ \E start \in WindowStarts, duration \in Durations :
          /\ args' = [time_range |-> "custom", start_time |-> start,
                      end_time |-> start + duration]
          /\ ret' = [dashboard |-> StepAndWindow("custom", start, start + duration),
                     health |-> HealthStep(start, start + duration)]
    /\ cmd' = "resolve_custom"
    /\ pc' = "done"
    /\ UNCHANGED <<stage, now, server, budget, issued, failed, locals, last>>

\* The dashboard's tables on a token: the window, the range literal and the
\* (step, rate_window) pair.
ResolveToken ==
    /\ pc = "idle"
    /\ \E time_range \in ResolverTokens, n \in Clock :
          LET window == PresetWindow(time_range, n)
          IN  /\ args' = [time_range |-> time_range, start_time |-> window.start_time,
                          end_time |-> window.end_time]
              /\ now' = Some(n)
              /\ locals' = window
              /\ ret' = [dashboard |-> StepAndWindow(time_range, window.start_time,
                                                     window.end_time),
                         health |-> HealthStep(window.start_time, window.end_time)]
    /\ cmd' = "resolve_token"
    /\ pc' = "done"
    /\ UNCHANGED <<stage, server, budget, issued, failed, last>>

InitResolvers == InitCommon /\ budget = 0 /\ server = "data"

NextResolvers ==
    \/ ResolveCustom
    \/ ResolveToken

SpecResolvers == InitResolvers /\ [][NextResolvers]_vars

Resolved(c) == cmd = c /\ pc = "done"

\* C24 as stated: for every query-window duration the dashboard step resolver
\* and the health-sparkline step resolver choose the same step.
C24_SameStep ==
    Resolved("resolve_custom") =>
        LiteralSeconds(ret.dashboard.step) = LiteralSeconds(ret.health)

\* C24, what holds: the two resolvers share the breakpoints at one hour, four
\* hours and one day, and choose the same step exactly for the windows longer
\* than 15 minutes and no longer than four hours; for every other window the
\* health step is the shorter one.
C24_SameStepMidRange ==
    Resolved("resolve_custom") =>
        LET duration == args.end_time - args.start_time
            dashboard == LiteralSeconds(ret.dashboard.step)
            health == LiteralSeconds(ret.health)
        IN  /\ health <= dashboard
            /\ health = dashboard <=> (900 < duration /\ duration <= 4 * 3600)

\* A window of one day: the dashboard samples it every hour, the health
\* sparklines every 15 minutes.
C24_Witness ==
    /\ Resolved("resolve_custom")
    /\ args.end_time - args.start_time = 24 * 3600
    /\ ret.dashboard.step = <<"1", "h">>
    /\ ret.health = <<"9", "0", "0", "s">>

\* C25: each step resolver is a monotonic staircase on duration: in the
\* dashboard resolver, on custom ranges and on the tokens ordered by their
\* duration, and in the health resolver, a longer window never gets a shorter
\* step, and in the dashboard resolver never a shorter rate window.
C25_MonotonicStaircase ==
    /\ Resolved("resolve_custom") =>
          \A longer \in Durations :
             longer >= args.end_time - args.start_time =>
                LET pair == StepAndWindow("custom", 0, longer)
                IN  /\ LiteralSeconds(pair.step) >= LiteralSeconds(ret.dashboard.step)
                    /\ LiteralSeconds(pair.rate_window)
                          >= LiteralSeconds(ret.dashboard.rate_window)
                    /\ LiteralSeconds(HealthStep(0, longer)) >= LiteralSeconds(ret.health)
    /\ Resolved("resolve_token") =>
          \A longer \in ResolverTokens :
             time_range_to_seconds(longer) >= args.end_time - args.start_time =>
                LET pair == StepAndWindow(longer, 0, time_range_to_seconds(longer))
                IN  /\ LiteralSeconds(pair.step) >= LiteralSeconds(ret.dashboard.step)
                    /\ LiteralSeconds(pair.rate_window)
                          >= LiteralSeconds(ret.dashboard.rate_window)
                    /\ LiteralSeconds(HealthStep(0, time_range_to_seconds(longer)))
                          >= LiteralSeconds(ret.health)

\* One second past four hours: both resolvers have moved up a stair.
C25_Witness ==
    /\ Resolved("resolve_custom")
    /\ args.end_time - args.start_time = 4 * 3600 + 1
    /\ ret.dashboard = [step |-> <<"1", "h">>, rate_window |-> <<"1", "h">>]
    /\ ret.health = <<"9", "0", "0", "s">>
    /\ StepAndWindow("custom", 0, 4 * 3600).step = <<"5", "m">>
    /\ HealthStep(0, 4 * 3600) = <<"3", "0", "0", "s">>

UnitOf(literal) == literal[Len(literal)]

ResolvedDashboard == Resolved("resolve_custom") \/ Resolved("resolve_token")

\* A window shorter than one hour gets a minute-level step and a 5-minute
\* rate window
SubHourMinuteLevel ==
    (ResolvedDashboard /\ args.end_time - args.start_time < 3600) =>
        /\ UnitOf(ret.dashboard.step) = "m"
        /\ LiteralSeconds(ret.dashboard.step) < 3600
        /\ ret.dashboard.rate_window = <<"5", "m">>

\* A window longer than `floor` seconds gets a whole number of days as step
\* and a rate window equal to the step
DayLevelAbove(floor) ==
    (ResolvedDashboard /\ args.end_time - args.start_time > floor) =>
        /\ UnitOf(ret.dashboard.step) = "d"
        /\ LiteralSeconds(ret.dashboard.step) % 86400 = 0
        /\ LiteralSeconds(ret.dashboard.step) > 0
        /\ ret.dashboard.rate_window = ret.dashboard.step

\* C26 as stated: in the dashboard step resolver every window shorter than
\* one hour gets a minute-level step with a 5-minute rate window, and every
\* window longer than one day gets a day-level step (a whole number of days)
\* with a rate window equal to the step.
C26_DayLevelAboveOneDay == SubHourMinuteLevel /\ DayLevelAbove(24 * 3600)

\* C26 amended: every window shorter than one hour gets a minute-level step
\* with a 5-minute rate window; every window longer than seven days gets a
\* day-level step with a rate window equal to the step; a window longer than
\* one day and no longer than seven gets a step and a rate window of 6 hours.
C26_DayLevelAboveOneWeek ==
    /\ SubHourMinuteLevel
    /\ DayLevelAbove(7 * 24 * 3600)
    /\ (ResolvedDashboard /\ args.end_time - args.start_time > 24 * 3600
            /\ args.end_time - args.start_time <= 7 * 24 * 3600) =>
          ret.dashboard = [step |-> <<"6", "h">>, rate_window |-> <<"6", "h">>]

\* The token 7d: a window of seven days sampled every six hours.
C26_Witness ==
    /\ Resolved("resolve_token")
    /\ args.time_range = "7d"
    /\ args.end_time - args.start_time = 7 * 24 * 3600
    /\ ret.dashboard = [step |-> <<"6", "h">>, rate_window |-> <<"6", "h">>]

(***************************************************************************)
(* The streak and repeated dates (under SpecInsights)                      *)
(***************************************************************************)
\* The entries of the list that repeat the date of another entry which has
\* messages
SecondEntries(activities) ==
    {i \in 1..Len(activities) :
        \E j \in 1..Len(activities) :
            j /= i /\ activities[j].date = activities[i].date
                   /\ activities[j].message_count > 0}

InsightsDone == cmd = "compute_insights" /\ pc = "done" /\ ret.ok

\* C27 as stated: current_streak counts distinct dates: a second
\* daily-activity entry for a date that is already present with
\* message_count > 0, today's date included, does not change the streak.
C27_DistinctDates ==
    InsightsDone =>
        LET activities == args.file.cache[1].daily_activity
        IN  \A i \in SecondEntries(activities) :
               ret.val.peak_activity.current_streak
                   = CurrentStreak(WithoutLine(activities, i), args.today)

\* C27, what holds: a second entry for a date other than today, or one
\* without messages, does not change the streak; a second entry with messages
\* for today's date adds one to it.
C27_TodayCountedTwice ==
    InsightsDone =>
        LET activities == args.file.cache[1].daily_activity
        IN  \A i \in SecondEntries(activities) :
               ret.val.peak_activity.current_streak
                   = CurrentStreak(WithoutLine(activities, i), args.today)
                       + (IF activities[i].message_count > 0
                             /\ ParseDate(activities[i].date) = Some(args.today)
                          THEN 1 ELSE 0)

\* Two entries for today and one for yesterday, all with messages: two
\* dates, a streak of 3.
C27_Witness ==
    /\ InsightsDone
    /\ args.today = InsightsToday
    /\ args.file.cache[1].daily_activity =
          <<DailyActivity(<<2024, 3, 2>>, 3, 1), DailyActivity(<<2024, 3, 2>>, 3, 1),
            DailyActivity(<<2024, 3, 1>>, 3, 1)>>
    /\ ret.val.peak_activity.current_streak = 3

\* C28: for every dashboard time_range token, unrecognized ones included,
\* the three tables of the dashboard agree: the PromQL duration literal
\* denotes exactly the number of seconds subtracted from now, and the (step,
\* rate window) pair chosen for the token is the pair the custom branch
\* chooses for a custom range of that duration.
C28_TablesAgree ==
    Resolved("resolve_token") =>
        /\ args.end_time = Unwrap(now)
        /\ LiteralSeconds(locals.range_str) = Unwrap(now) - args.start_time
        /\ ret.dashboard
              = StepAndWindow("custom", 0, LiteralSeconds(locals.range_str))
        /\ ret.dashboard = StepAndWindow("custom", args.start_time, args.end_time)

\* A token the tables do not know: 15 minutes in all three.
C28_Witness ==
    /\ Resolved("resolve_token")
    /\ args.time_range = "2d"
    /\ locals.range_str = <<"1", "5", "m">>
    /\ args.end_time - args.start_time = 900
    /\ ret.dashboard = [step |-> <<"1", "m">>, rate_window |-> <<"5", "m">>]

(***************************************************************************)
(* The two windows of get_sessions_data (under SpecSessions)               *)
(***************************************************************************)
\* The range literal inside the k-th query sent
RangeLiteral(k) == issued[k].params[1][2][2]

\* C29: in get_sessions_data the local lookback and the remote query window
\* have the same length for every token, the unknown ones included: the
\* PromQL range literal of every query denotes exactly the milliseconds
\* subtracted from now, and a history entry older than that cutoff
\* contributes to no session record.
C29_SameWindow ==
    (cmd = "get_sessions_data" /\ pc /= "idle" /\ Len(issued) > 0) =>
        \A k \in 1..Len(issued) :
           LET window == Millis(LiteralSeconds(RangeLiteral(k)), 0)
               cutoff == MsMinus(SessionsNow, window)
               lines == args.disk.lines
               recent == {i \in 1..Len(lines) :
                            lines[i].kind = "entry" /\ ~MsLess(lines[i].timestamp, cutoff)}
           IN  /\ window = time_range_to_millis(args.time_range)
               /\ DOMAIN locals = {lines[i].session_id : i \in recent}
               /\ \A sid \in DOMAIN locals :
                     /\ locals[sid].message_count
                           = Cardinality({i \in recent : lines[i].session_id = sid})
                     /\ \E i \in recent : locals[sid].timestamp = lines[i].timestamp

\* The token 7d on a file with an entry exactly seven days old and one a
\* millisecond older: the literal is 7d and only the first entry's session
\* is returned.
C29_Witness ==
    /\ cmd = "get_sessions_data"
    /\ pc = "done"
    /\ ret.ok
    /\ args.time_range = "7d"
    /\ args.disk.lines =
          <<EntryLine(MsMinus(SessionsNow, Millis(168 * 3600, 0)), PathAlpha, "s1"),
            EntryLine(MsMinus(SessionsNow, Millis(168 * 3600, 1)), PathBeta, "s2")>>
    /\ RangeLiteral(1) = <<"7", "d">>
    /\ ret.val.total_count = 1
    /\ ret.val.sessions[1].session_id = "s1"

====
